---- MODULE Spec2Model ----
(***************************************************************************)
(* Verification model of the sync pipeline of amazon-seller-dashboard:     *)
(* the retrying transport (sp-api/retry), the order collector              *)
(* (sp-api/orders), the financial event collector (sp-api/finances), the   *)
(* reconciliation writer and refund allocator (sync/financesSync) and the  *)
(* daily aggregator (metrics/dailySummary).                                *)
(*                                                                         *)
(* Money is counted in integer units: refund amounts and allocations in    *)
(* micro-units (1e-6, the precision of toFixed(6)), order and event        *)
(* amounts of the aggregator in minor units.  Nullable values are the      *)
(* empty tuple (Null) or a one-element tuple (Some(v)).                    *)
(***************************************************************************)
EXTENDS Integers, Sequences, FiniteSets, TLC

Null == <<>>
Some(v) == <<v>>

Max(a, b) == IF a >= b THEN a ELSE b
Min(a, b) == IF a <= b THEN a ELSE b
Abs(a) == IF a < 0 THEN 0 - a ELSE a

(***************************************************************************)
(* Bounds of the model.                                                    *)
(***************************************************************************)
\* longest list of order items handed to the refund allocator
MaxAllocItems == 6
\* largest small refund amount (in micro-units) the allocator is tried on
MaxAllocAmount == 5
\* largest attempts option withSpApiRetry is called with
MaxRetryAttempts == 4
\* largest maxPages, maxOrders and maxOrdersWithItems the order collector is
\* called with
MaxPagesLimit == 2
MaxOrdersLimit == 2
MaxItemsLimit == 2
\* most pages the order-items feed returns for one order
MaxItemPages == 2
\* last instant of the clock, and the syncs one behaviour runs
MaxClock == 2
MaxSyncRuns == 2
DayTicks == 2
MaxWindowDays == 2
MaxRecomputeRuns == 2
MaxEventRows == 2

VARIABLES
  \* ---- refund allocator (one call of allocateRefundAmount)
  allocAmount,      \* the amount argument, in micro-units
  allocItems,       \* the items argument
  allocResult,      \* the returned allocations
  allocPc,          \* "ready" | "returned"
  \* ---- retrying transport (one call of withSpApiRetry)
  rtOptions,        \* [attempts, baseDelayMs, maxDelayMs] after defaults
  rtAttempt,        \* the loop variable attempt
  rtLastError,      \* lastError (Null while undefined)
  rtPc,             \* "call" | "sleep" | "returned" | "thrown"
  rtOutcome,        \* the value returned or the error thrown (Null before)
  rtCalls,          \* what each call of fn did: 0 it returned, else the
                    \* status code its error carried (NoStatus for none)
  rtSleeps,         \* the delay of each sleep, in ms
  \* ---- order collector (one call of fetchOrdersWithItems)
  ocLimits,         \* [maxPages, maxOrders, maxOrdersWithItems]
  ocOrders,         \* orders: every order of every fetched page
  ocNextToken,      \* nextToken of the orders loop
  ocPagesFetched,
  ocOrderLimitHit,
  ocSorted,         \* sortedOrders
  ocIndex,          \* index of the item loop (orders handled so far)
  ocItems,          \* items gathered so far by fetchOrderItemsForOrder
  ocItemToken,      \* nextToken of fetchOrderItemsForOrder
  ocItemPages,      \* pages fetched so far for the current order
  ocEntries,
  ocOrdersWithItemsFetched,
  ocResult,         \* the returned diagnostics (Null before)
  ocPc,             \* "page" | "sort" | "items" | "returned" | "thrown"
  ocPageLog,        \* every getOrders response: [orders, token]
  ocItemRequests,   \* the order id of every getOrderItems request
  ocItemFailures,   \* the order ids whose getOrderItems request was rejected
  ocUpstream,       \* the pages of orders getOrders may answer the call with
  \* ---- the clock and the persisted store
  now,              \* new Date(), in instants
  dbOrders,         \* Order rows
  dbOrderItems,     \* OrderItem rows
  dbFinancialEvents,   \* FinancialEvent rows, in the order of their creation
  dbRefundAllocations, \* RefundAllocation rows
  \* ---- finances sync (calls of syncFinancesFromSpApi, one after another)
  finUpstream,      \* the pages the financial-events feed holds
  fsOptions,        \* [maxEventsPages, dryRun] of the running call
  fsRaw,            \* events of fetchFinancialEvents before deduplication
  fsPagesFetched,
  fsEvents,         \* fetchResult.events
  fsKnown,          \* knownOrderIdSet
  fsItemsByOrder,   \* orderItemsByOrderId
  fsIndex,          \* place in the loop over events
  fsEventId,        \* financialEvent.id of the event being persisted
  fsAllocations,    \* allocations of the event being persisted
  fsCounts,         \* eventsUpserted, orderItemsMarkedRefunded, refundAllocationsUpserted
  fsPc,
  fsRunLog,         \* per finished call: its options, the keys it persisted
                    \* and the FinancialEvent and RefundAllocation tables it left
  fsBefore,         \* the store as the running call found it
  \* ---- daily summary (calls of recomputeDailySummary)
  dbCogs,           \* COGS rows
  dbDailySummary,   \* DailySummary rows
  rcWindow,         \* per caller: [startDate, endExclusive] of its call
  rcOrders,         \* per caller: the orders it read, with their items
  rcEvents,         \* per caller: the financial events it read
  rcDayMap,         \* per caller: dayMap, date key -> accumulator
  rcPending,        \* per caller: the date keys still to upsert, in map order
  rcPc,             \* per caller: "idle" | "orders" | "events" | "cogs" | "upsert"
  rcRuns,           \* per caller: calls started
  rcClean,          \* per caller: its call saw one state of the data and no
                    \* write of a call over other data or another window
  dsQuietRuns,      \* clean calls of one window finished since the data changed
  dsQuietWindow,    \* their window
  dsAfterFirst,     \* DailySummary as the first of them left it
  \* ---- orders sync (one call of syncOrdersFromSpApi)
  dbProducts,       \* Product rows
  osDryRun,         \* the dryRun option
  osPc,             \* "off" | "fetch" | "entry" | "tx" | "returned" | "thrown"
  osIndex,          \* place in the loop over entries
  osTx,             \* the open transaction: the tables as it sees them (Null
                    \* when none is open), or the one that was rolled back
  osCounts,         \* ordersUpserted, orderItemsUpserted, productsUpserted
  osResult,         \* the returned result (Null before)
  osCommitted,      \* the order ids whose transaction has committed
  \* ---- full sync run (calls of POST /api/sync/run, one after another)
  dbSyncRuns,       \* SyncRun rows, in the order of their creation
  runFeed,          \* what upstream holds: a page of orders and the pages of
                    \* financial events
  runOptions,       \* days, dryRun and the order limits of the payload
  runId,            \* syncRunId (0 while null)
  runPc,            \* "off" | "idle" | "orders" | "finances" | "summary" |
                    \* "finish" | "respond" | "done"
  runLog            \* per run: its options, the store it started from, what
                    \* upstream answered and the results of its steps

allocVars == <<allocAmount, allocItems, allocResult, allocPc>>
retryVars == <<rtOptions, rtAttempt, rtLastError, rtPc, rtOutcome, rtCalls, rtSleeps>>

ocVars == <<ocLimits, ocOrders, ocNextToken, ocPagesFetched, ocOrderLimitHit,
            ocSorted, ocIndex, ocItems, ocItemToken, ocItemPages, ocEntries,
            ocOrdersWithItemsFetched, ocResult, ocPc, ocPageLog, ocItemRequests,
            ocItemFailures, ocUpstream>>

dbVars == <<now, dbOrders, dbOrderItems, dbFinancialEvents, dbRefundAllocations>>
fsVars == <<finUpstream, fsOptions, fsRaw, fsPagesFetched, fsEvents, fsKnown,
            fsItemsByOrder, fsIndex, fsEventId, fsAllocations, fsCounts, fsPc,
            fsRunLog, fsBefore>>

dsVars == <<dbCogs, dbDailySummary, rcWindow, rcOrders, rcEvents, rcDayMap,
            rcPending, rcPc, rcRuns, rcClean, dsQuietRuns, dsQuietWindow,
            dsAfterFirst>>

osVars == <<dbProducts, osDryRun, osPc, osIndex, osTx, osCounts, osResult,
            osCommitted>>

runVars == <<dbSyncRuns, runFeed, runOptions, runId, runPc, runLog>>

vars == <<allocVars, retryVars, ocVars, dbVars, fsVars, dsVars, osVars, runVars>>

(***************************************************************************)
(* Refund allocator: src/unnamed/part_009 (lib/sync/financesSync.ts).      *)
(***************************************************************************)

\* toNumber: a Decimal's value, 0 for null.
toNumber(value) == IF value = Null THEN 0 ELSE value[1]

\* Number(x.toFixed(6)) of the non-negative quotient num/den, in micro-units
\* (round to nearest, an exact half rounds up).
ToFixed6(num, den) == (2 * num + den) \div (2 * den)

\* a slip that subtracts the discount with its sign, without Math.abs
computeOrderItemWeight_SignedDiscount(item) ==
  LET gross == item.quantityOrdered * toNumber(item.itemPrice)
                 + toNumber(item.itemTax)
                 - toNumber(item.promotionDiscount)
  IN IF gross > 0 THEN gross
     ELSE IF item.quantityOrdered > 0 THEN item.quantityOrdered ELSE 1

computeOrderItemWeight(item) ==
  LET gross == item.quantityOrdered * toNumber(item.itemPrice)
                 + toNumber(item.itemTax)
                 - Abs(toNumber(item.promotionDiscount))
  IN IF gross > 0 THEN gross
     ELSE IF item.quantityOrdered > 0 THEN item.quantityOrdered ELSE 1

RECURSIVE SumSeq(_, _)
\* sum of f[1..n]
SumSeq(f, n) == IF n = 0 THEN 0 ELSE f[n] + SumSeq(f, n - 1)

allocateRefundAmount(amount, items) ==
  IF Len(items) = 0 \/ amount <= 0 THEN <<>>
  ELSE
    LET n == Len(items)
        weight == [i \in 1..n |-> computeOrderItemWeight(items[i])]
        totalWeight == SumSeq(weight, n)
        share == [i \in 1..n |-> ToFixed6(amount * weight[i], totalWeight)]
        \* remaining when the last item is reached
        remaining == amount - SumSeq(share, n - 1)
    IN IF totalWeight <= 0 THEN <<>>
       ELSE [i \in 1..n |->
              IF i = n
                THEN [orderItemId |-> items[i].id, amount |-> Max(remaining, 0)]
                ELSE [orderItemId |-> items[i].id, amount |-> share[i]]]

\* The item shapes the allocator is tried on: priced items of weight 10, 20
\* and 21, and an item with no captured price (weight = its quantity).
ItemKinds ==
  { [quantityOrdered |-> 1, itemPrice |-> Some(10), itemTax |-> Null, promotionDiscount |-> Null],
    [quantityOrdered |-> 2, itemPrice |-> Some(10), itemTax |-> Some(1), promotionDiscount |-> Some(0 - 1)],
    [quantityOrdered |-> 2, itemPrice |-> Some(10), itemTax |-> Some(1), promotionDiscount |-> Null],
    [quantityOrdered |-> 1, itemPrice |-> Null, itemTax |-> Null, promotionDiscount |-> Null] }

\* An order's items: the i-th row has id i.
WithIds(kinds) ==
  [i \in 1..Len(kinds) |->
     [id |-> i,
      quantityOrdered |-> kinds[i].quantityOrdered,
      itemPrice |-> kinds[i].itemPrice,
      itemTax |-> kinds[i].itemTax,
      promotionDiscount |-> kinds[i].promotionDiscount]]

ItemLists(maxLen) ==
  UNION { { WithIds(k) : k \in [1..len -> ItemKinds] } : len \in 0..maxLen }

\* one micro-unit is 1e-6 of the currency unit
Micro == 1000000

AllocAmounts == (0..MaxAllocAmount) \cup {30 * Micro}

\* No share of the call is an exact half of a micro-unit: there the digit
\* toFixed(6) produces depends on the binary representation of the double,
\* which integer arithmetic does not decide.
HalfFree(amount, items) ==
  LET n == Len(items)
      weight == [i \in 1..n |-> computeOrderItemWeight(items[i])]
      totalWeight == SumSeq(weight, n)
  IN \A i \in 1..n :
       ~ ( (2 * amount * weight[i]) % totalWeight = 0
           /\ ((2 * amount * weight[i]) \div totalWeight) % 2 = 1 )

AllocIdle ==
  /\ allocAmount = 0
  /\ allocItems = <<>>
  /\ allocResult = <<>>
  /\ allocPc = "returned"

AllocStart ==
  /\ allocAmount \in AllocAmounts
  /\ allocItems \in ItemLists(MaxAllocItems)
  /\ HalfFree(allocAmount, allocItems)
  /\ allocResult = <<>>
  /\ allocPc = "ready"

AllocCall ==
  /\ allocPc = "ready"
  /\ allocResult' = allocateRefundAmount(allocAmount, allocItems)
  /\ allocPc' = "returned"
  /\ UNCHANGED <<allocAmount, allocItems, retryVars, ocVars, dbVars, fsVars, dsVars, osVars, runVars>>

AllocNext == AllocCall

(***************************************************************************)
(* Retrying transport: src/unnamed/part_012 (lib/sp-api/retry.ts).         *)
(***************************************************************************)

\* getStatusCode(error) of an error that carries no numeric status
NoStatus == 0 - 1

\* The errors fn throws: error.status, error.response.status and the
\* rate-limit header of error.response.headers in thousandths of a request
\* per second (Null: no such field).
DirectErrors ==
  { [status |-> Some(c), responseStatus |-> Null, rateLimit |-> Null] :
      c \in {400, 429, 500, 502, 503, 504} }

ResponseErrors ==
  { [status |-> Null, responseStatus |-> Some(c), rateLimit |-> h] :
      c \in {404, 429, 503}, h \in {Null, Some(0), Some(100), Some(5000)} }

MixedErrors ==
  { [status |-> Some(400), responseStatus |-> Some(503), rateLimit |-> Null],
    [status |-> Some(503), responseStatus |-> Some(400), rateLimit |-> Null],
    [status |-> Null, responseStatus |-> Null, rateLimit |-> Null] }

Errors == DirectErrors \cup ResponseErrors \cup MixedErrors

\* what fn resolves to
Responses == {"page"}

getStatusCode(error) ==
  IF error.status # Null THEN error.status[1]
  ELSE IF error.responseStatus # Null THEN error.responseStatus[1]
  ELSE NoStatus

\* the header value when it is a positive number, else Null (undefined)
getRateLimitHeader(error) ==
  IF error.rateLimit # Null /\ error.rateLimit[1] > 0 THEN error.rateLimit ELSE Null

RECURSIVE Pow2(_)
Pow2(n) == IF n <= 0 THEN 1 ELSE 2 * Pow2(n - 1)

\* Math.ceil(1000 / rateLimit), the rate limit given in thousandths
CeilPerSecond(milliRate) == (1000 * 1000 + milliRate - 1) \div milliRate

\* a slip that leaves out Math.max(delay, baseDelayMs)
getRetryDelayMs_NoFloor(error, attempt, baseDelayMs, maxDelayMs) ==
  LET rateLimit == getRateLimitHeader(error)
  IN IF getStatusCode(error) = 429 /\ rateLimit # Null
       THEN Min(CeilPerSecond(rateLimit[1]) + 1500, maxDelayMs)
       ELSE Min(baseDelayMs * Pow2(attempt - 1), maxDelayMs)

getRetryDelayMs(error, attempt, baseDelayMs, maxDelayMs) ==
  LET rateLimit == getRateLimitHeader(error)
  IN IF getStatusCode(error) = 429 /\ rateLimit # Null
       THEN Min(Max(CeilPerSecond(rateLimit[1]) + 1500, baseDelayMs), maxDelayMs)
       ELSE Min(baseDelayMs * Pow2(attempt - 1), maxDelayMs)

\* a slip that retries every failure that carries an HTTP error status
isRetryable_AnyStatus(error) == getStatusCode(error) >= 400

isRetryable(error) ==
  LET status == getStatusCode(error)
  IN status = 429 \/ status = 500 \/ status = 502 \/ status = 503 \/ status = 504

\* a slip that gives up one attempt early
attemptsExhausted_OneEarly(attempt, attempts) == attempt + 1 >= attempts

\* attempt === attempts, the first half of the rethrow condition
attemptsExhausted(attempt, attempts) == attempt = attempts

\* the options the transport is called with (orders.ts:98-101,
\* part_013:227-230) and a short maxDelayMs that makes the cap bite
RetryOptions ==
  { [attempts |-> n, baseDelayMs |-> b[1], maxDelayMs |-> b[2]] :
      n \in 0..MaxRetryAttempts, b \in {<<2500, 60000>>, <<4000, 10000>>} }

RetryIdle ==
  /\ rtOptions = [attempts |-> 0, baseDelayMs |-> 0, maxDelayMs |-> 0]
  /\ rtAttempt = 0
  /\ rtLastError = Null
  /\ rtPc = "returned"
  /\ rtOutcome = Null
  /\ rtCalls = <<>>
  /\ rtSleeps = <<>>

RetryStart ==
  /\ rtOptions \in RetryOptions
  /\ rtAttempt = 1
  /\ rtLastError = Null
  /\ rtPc = "call"
  /\ rtOutcome = Null
  /\ rtCalls = <<>>
  /\ rtSleeps = <<>>

\* return await fn(): fn resolves
RetryCallReturns ==
  /\ rtPc = "call"
  /\ rtAttempt <= rtOptions.attempts
  /\ \E value \in Responses :
       /\ rtOutcome' = Some(value)
       /\ rtCalls' = Append(rtCalls, 0)
       /\ rtPc' = "returned"
  /\ UNCHANGED <<rtOptions, rtAttempt, rtLastError, rtSleeps, allocVars, ocVars, dbVars, fsVars, dsVars, osVars, runVars>>

\* return await fn(): fn rejects with error; the catch block
RetryCallThrows ==
  /\ rtPc = "call"
  /\ rtAttempt <= rtOptions.attempts
  /\ \E error \in Errors :
       /\ rtLastError' = Some(error)
       /\ rtCalls' = Append(rtCalls, getStatusCode(error))
       /\ IF attemptsExhausted(rtAttempt, rtOptions.attempts) \/ ~isRetryable(error)
            THEN /\ rtPc' = "thrown"
                 /\ rtOutcome' = Some(error)
                 /\ rtSleeps' = rtSleeps
            ELSE /\ rtPc' = "sleep"
                 /\ rtOutcome' = rtOutcome
                 /\ rtSleeps' = Append(rtSleeps,
                      getRetryDelayMs(error, rtAttempt, rtOptions.baseDelayMs,
                                      rtOptions.maxDelayMs))
  /\ UNCHANGED <<rtOptions, rtAttempt, allocVars, ocVars, dbVars, fsVars, dsVars, osVars, runVars>>

\* the sleep is over: attempt += 1
RetryWake ==
  /\ rtPc = "sleep"
  /\ rtAttempt' = rtAttempt + 1
  /\ rtPc' = "call"
  /\ UNCHANGED <<rtOptions, rtLastError, rtOutcome, rtCalls, rtSleeps, allocVars, ocVars, dbVars, fsVars, dsVars, osVars, runVars>>

\* the loop ends without a call: throw lastError
RetryLoopEnds ==
  /\ rtPc = "call"
  /\ rtAttempt > rtOptions.attempts
  /\ rtPc' = "thrown"
  /\ rtOutcome' = rtLastError
  /\ UNCHANGED <<rtOptions, rtAttempt, rtLastError, rtCalls, rtSleeps, allocVars, ocVars, dbVars, fsVars, dsVars, osVars, runVars>>

RetryNext == RetryCallReturns \/ RetryCallThrows \/ RetryWake \/ RetryLoopEnds

(***************************************************************************)
(* Order collector: src/src/lib/sp-api/orders.ts.                          *)
(***************************************************************************)
OrderIds == {"A", "B"}
PurchaseDates == {1, 2}

\* the orders upstream may return; one id may come with changed data
UpstreamOrders ==
  { [AmazonOrderId |-> id, PurchaseDate |-> date] :
      id \in OrderIds, date \in PurchaseDates }

\* payload.Orders of one getOrders response
UpstreamPages ==
  {<<>>} \cup { <<o>> : o \in UpstreamOrders }
         \cup { <<o1, o2>> : o1 \in UpstreamOrders, o2 \in UpstreamOrders }

\* payload.NextToken
Tokens == {Null, Some("token")}

\* payload.OrderItems of one getOrderItems response
UpstreamItemPages ==
  { <<>>, << [SellerSKU |-> "SKU1", QuantityOrdered |-> 1] >> }

RECURSIVE dedupeOrders_FirstWins(_)
\* a slip that keeps the first copy of an order id (if (!map.has(id)) set)
dedupeOrders_FirstWins(orders) ==
  IF orders = <<>> THEN <<>>
  ELSE LET front == dedupeOrders_FirstWins(SubSeq(orders, 1, Len(orders) - 1))
           order == orders[Len(orders)]
       IN IF \E i \in 1..Len(front) : front[i].AmazonOrderId = order.AmazonOrderId
            THEN front
            ELSE Append(front, order)

RECURSIVE dedupeOrders(_)
\* uniqueOrders.set(order.AmazonOrderId, order) for every order in turn: a
\* Map keeps the place of the first insertion and the value of the last
dedupeOrders(orders) ==
  IF orders = <<>> THEN <<>>
  ELSE LET front == dedupeOrders(SubSeq(orders, 1, Len(orders) - 1))
           order == orders[Len(orders)]
           seen == { i \in 1..Len(front) : front[i].AmazonOrderId = order.AmazonOrderId }
       IN IF seen = {} THEN Append(front, order)
          ELSE [i \in 1..Len(front) |-> IF i \in seen THEN order ELSE front[i]]

\* place of order in a list already sorted: behind every order whose
\* purchase date is not earlier (the sort is stable)
InsertByDate(sorted, order) ==
  LET before == { i \in 1..Len(sorted) : sorted[i].PurchaseDate >= order.PurchaseDate }
      k == IF before = {} THEN 0 ELSE CHOOSE i \in before : \A j \in before : j <= i
  IN SubSeq(sorted, 1, k) \o <<order>> \o SubSeq(sorted, k + 1, Len(sorted))

RECURSIVE sortByPurchaseDateDesc(_)
sortByPurchaseDateDesc(orders) ==
  IF orders = <<>> THEN <<>>
  ELSE InsertByDate(sortByPurchaseDateDesc(SubSeq(orders, 1, Len(orders) - 1)),
                    orders[Len(orders)])

\* a slip that stops the orders loop only above the limit
orderLimitReached_Above(count, maxOrders) == count > maxOrders

\* orders.length >= maxOrders
orderLimitReached(count, maxOrders) == count >= maxOrders

\* a slip that lets the loop fetch one page more
morePagesWanted_OneMore(nextToken, pagesFetched, maxPages) ==
  nextToken # Null /\ pagesFetched <= maxPages

\* the loop condition: nextToken && pagesFetched < maxPages
morePagesWanted(nextToken, pagesFetched, maxPages) ==
  nextToken # Null /\ pagesFetched < maxPages

\* a slip that fetches the items of one order more
itemsLimitReached_Above(index, maxOrdersWithItems) == index > maxOrdersWithItems

\* index >= maxOrdersWithItems (index counts from 0)
itemsLimitReached(index, maxOrdersWithItems) == index >= maxOrdersWithItems

\* the limits the sync routes accept (each is at least 1)
OrderLimits ==
  [maxPages : 1..MaxPagesLimit, maxOrders : 1..MaxOrdersLimit,
   maxOrdersWithItems : 1..MaxItemsLimit]

OcIdle ==
  /\ ocLimits = [maxPages |-> 1, maxOrders |-> 1, maxOrdersWithItems |-> 1]
  /\ ocOrders = <<>>
  /\ ocNextToken = Null
  /\ ocPagesFetched = 0
  /\ ocOrderLimitHit = FALSE
  /\ ocSorted = <<>>
  /\ ocIndex = 0
  /\ ocItems = <<>>
  /\ ocItemToken = Null
  /\ ocItemPages = 0
  /\ ocEntries = <<>>
  /\ ocOrdersWithItemsFetched = 0
  /\ ocResult = Null
  /\ ocPc = "idle"
  /\ ocPageLog = <<>>
  /\ ocItemRequests = <<>>
  /\ ocItemFailures = {}
  /\ ocUpstream = {}

OcStart ==
  /\ ocLimits \in OrderLimits
  /\ ocOrders = <<>>
  /\ ocNextToken = Null
  /\ ocPagesFetched = 0
  /\ ocOrderLimitHit = FALSE
  /\ ocSorted = <<>>
  /\ ocIndex = 0
  /\ ocItems = <<>>
  /\ ocItemToken = Null
  /\ ocItemPages = 0
  /\ ocEntries = <<>>
  /\ ocOrdersWithItemsFetched = 0
  /\ ocResult = Null
  /\ ocPc = "page"
  /\ ocPageLog = <<>>
  /\ ocItemRequests = <<>>
  /\ ocItemFailures = {}
  /\ ocUpstream = UpstreamPages

\* one pass of the orders loop: getOrders resolves
OcFetchPage ==
  /\ ocPc = "page"
  /\ \E pageOrders \in ocUpstream, token \in Tokens :
       LET orders == ocOrders \o pageOrders
           pagesFetched == ocPagesFetched + 1
       IN /\ ocOrders' = orders
          /\ ocNextToken' = token
          /\ ocPagesFetched' = pagesFetched
          /\ ocPageLog' = Append(ocPageLog, [orders |-> pageOrders, token |-> token])
          /\ IF orderLimitReached(Len(orders), ocLimits.maxOrders)
               THEN ocOrderLimitHit' = TRUE /\ ocPc' = "sort"
               ELSE /\ ocOrderLimitHit' = ocOrderLimitHit
                    /\ ocPc' = IF morePagesWanted(token, pagesFetched, ocLimits.maxPages)
                                 THEN "page" ELSE "sort"
  /\ UNCHANGED <<ocLimits, ocUpstream, ocSorted, ocIndex, ocItems, ocItemToken, ocItemPages,
                 ocEntries, ocOrdersWithItemsFetched, ocResult, ocItemRequests, ocItemFailures,
                 allocVars, retryVars, dbVars, fsVars, dsVars, osVars, runVars>>

\* getOrders rejects after the transport's retries: fetchOrdersWithItems throws
OcFetchPageThrows ==
  /\ ocPc = "page"
  /\ ocPc' = "thrown"
  /\ UNCHANGED <<ocLimits, ocUpstream, ocOrders, ocNextToken, ocPagesFetched, ocOrderLimitHit,
                 ocSorted, ocIndex, ocItems, ocItemToken, ocItemPages, ocEntries,
                 ocOrdersWithItemsFetched, ocResult, ocPageLog, ocItemRequests, ocItemFailures,
                 allocVars, retryVars, dbVars, fsVars, dsVars, osVars, runVars>>

\* after the loop: deduplicate by order id and sort by purchase date
OcSort ==
  /\ ocPc = "sort"
  /\ ocSorted' = sortByPurchaseDateDesc(dedupeOrders(ocOrders))
  /\ ocPc' = "items"
  /\ UNCHANGED <<ocLimits, ocUpstream, ocOrders, ocNextToken, ocPagesFetched, ocOrderLimitHit,
                 ocIndex, ocItems, ocItemToken, ocItemPages, ocEntries,
                 ocOrdersWithItemsFetched, ocResult, ocPageLog, ocItemRequests, ocItemFailures,
                 allocVars, retryVars, dbVars, fsVars, dsVars, osVars, runVars>>

\* an order beyond maxOrdersWithItems: kept with no items
OcSkipItems ==
  /\ ocPc = "items"
  /\ ocIndex < Len(ocSorted)
  /\ itemsLimitReached(ocIndex, ocLimits.maxOrdersWithItems)
  /\ ocEntries' = Append(ocEntries, [order |-> ocSorted[ocIndex + 1], items |-> <<>>])
  /\ ocIndex' = ocIndex + 1
  /\ UNCHANGED <<ocLimits, ocUpstream, ocOrders, ocNextToken, ocPagesFetched, ocOrderLimitHit,
                 ocSorted, ocItems, ocItemToken, ocItemPages,
                 ocOrdersWithItemsFetched, ocResult, ocPc, ocPageLog,
                 ocItemRequests, ocItemFailures, allocVars, retryVars, dbVars, fsVars, dsVars, osVars, runVars>>

\* one pass of the loop of fetchOrderItemsForOrder: getOrderItems resolves
OcFetchItemsPage ==
  /\ ocPc = "items"
  /\ ocIndex < Len(ocSorted)
  /\ ~itemsLimitReached(ocIndex, ocLimits.maxOrdersWithItems)
  /\ \E orderItems \in UpstreamItemPages, token \in Tokens :
       /\ token # Null => ocItemPages + 1 < MaxItemPages
       /\ ocItemRequests' = Append(ocItemRequests, ocSorted[ocIndex + 1].AmazonOrderId)
       /\ IF token # Null
            THEN /\ ocItems' = ocItems \o orderItems
                 /\ ocItemToken' = token
                 /\ ocItemPages' = ocItemPages + 1
                 /\ UNCHANGED <<ocEntries, ocOrdersWithItemsFetched, ocIndex>>
            ELSE /\ ocEntries' = Append(ocEntries,
                       [order |-> ocSorted[ocIndex + 1], items |-> ocItems \o orderItems])
                 /\ ocOrdersWithItemsFetched' = ocOrdersWithItemsFetched + 1
                 /\ ocIndex' = ocIndex + 1
                 /\ ocItems' = <<>>
                 /\ ocItemToken' = Null
                 /\ ocItemPages' = 0
  /\ UNCHANGED <<ocLimits, ocUpstream, ocOrders, ocNextToken, ocPagesFetched, ocOrderLimitHit,
                 ocSorted, ocResult, ocPc, ocPageLog, ocItemFailures, allocVars, retryVars, dbVars, fsVars, dsVars, osVars, runVars>>

\* a slip that lets the rejection of getOrderItems out of
\* fetchOrdersWithItems
OcFetchItemsThrows_Raises ==
  /\ ocPc = "items"
  /\ ocIndex < Len(ocSorted)
  /\ ~itemsLimitReached(ocIndex, ocLimits.maxOrdersWithItems)
  /\ ocItemRequests' = Append(ocItemRequests, ocSorted[ocIndex + 1].AmazonOrderId)
  /\ ocItemFailures' = ocItemFailures \cup {ocSorted[ocIndex + 1].AmazonOrderId}
  /\ ocPc' = "thrown"
  /\ UNCHANGED <<ocLimits, ocUpstream, ocOrders, ocNextToken, ocPagesFetched, ocOrderLimitHit,
                 ocSorted, ocIndex, ocItems, ocItemToken, ocItemPages, ocEntries,
                 ocOrdersWithItemsFetched, ocResult, ocPageLog,
                 allocVars, retryVars, dbVars, fsVars, dsVars, osVars, runVars>>

\* getOrderItems rejects after the transport's retries: the catch block
\* keeps the order with no items
OcFetchItemsThrows ==
  /\ ocPc = "items"
  /\ ocIndex < Len(ocSorted)
  /\ ~itemsLimitReached(ocIndex, ocLimits.maxOrdersWithItems)
  /\ ocItemRequests' = Append(ocItemRequests, ocSorted[ocIndex + 1].AmazonOrderId)
  /\ ocItemFailures' = ocItemFailures \cup {ocSorted[ocIndex + 1].AmazonOrderId}
  /\ ocEntries' = Append(ocEntries, [order |-> ocSorted[ocIndex + 1], items |-> <<>>])
  /\ ocOrdersWithItemsFetched' = ocOrdersWithItemsFetched + 1
  /\ ocIndex' = ocIndex + 1
  /\ ocItems' = <<>>
  /\ ocItemToken' = Null
  /\ ocItemPages' = 0
  /\ UNCHANGED <<ocLimits, ocUpstream, ocOrders, ocNextToken, ocPagesFetched, ocOrderLimitHit,
                 ocSorted, ocResult, ocPc, ocPageLog, allocVars, retryVars, dbVars, fsVars, dsVars, osVars, runVars>>

\* return { entries, diagnostics }
OcReturn ==
  /\ ocPc = "items"
  /\ ocIndex = Len(ocSorted)
  /\ ocResult' = Some(
       [pagesFetched |-> ocPagesFetched,
        pageLimitHit |-> (ocNextToken # Null /\ ocPagesFetched >= ocLimits.maxPages),
        orderLimitHit |-> ocOrderLimitHit,
        totalOrdersFetched |-> Len(ocOrders),
        uniqueOrdersFetched |-> Len(ocSorted),
        ordersWithItemsFetched |-> ocOrdersWithItemsFetched,
        ordersSkippedForItems |-> Max(Len(ocSorted) - ocOrdersWithItemsFetched, 0),
        maxPages |-> ocLimits.maxPages,
        maxOrders |-> ocLimits.maxOrders,
        maxOrdersWithItems |-> ocLimits.maxOrdersWithItems])
  /\ ocPc' = "returned"
  /\ UNCHANGED <<ocLimits, ocUpstream, ocOrders, ocNextToken, ocPagesFetched, ocOrderLimitHit,
                 ocSorted, ocIndex, ocItems, ocItemToken, ocItemPages, ocEntries,
                 ocOrdersWithItemsFetched, ocPageLog, ocItemRequests, ocItemFailures,
                 allocVars, retryVars, dbVars, fsVars, dsVars, osVars, runVars>>

OcNext ==
  \/ OcFetchPage \/ OcFetchPageThrows \/ OcSort \/ OcSkipItems
  \/ OcFetchItemsPage \/ OcFetchItemsThrows \/ OcReturn

(***************************************************************************)
(* Financial event collector: src/unnamed/part_013 (lib/sp-api/finances).  *)
(***************************************************************************)

\* config.marketplaceId
MarketplaceId == "MKT1"

\* Entries of the upstream payload.  nodes are the "CurrencyAmount +
\* CurrencyCode" records collectCurrencyNodes finds in the entry, in the
\* order of its walk; amounts are in currency units.
RefundEntries ==
  { [PostedDate |-> Some(0), AmazonOrderId |-> Some("A"), SellerSKU |-> Null, ASIN |-> Null,
     nodes |-> << [CurrencyAmount |-> 0 - 30, CurrencyCode |-> Some("GBP")] >>],
    [PostedDate |-> Some(0), AmazonOrderId |-> Some("Z"), SellerSKU |-> Some("SKU1"), ASIN |-> Null,
     nodes |-> << [CurrencyAmount |-> 0 - 4, CurrencyCode |-> Null],
                  [CurrencyAmount |-> 0 - 1, CurrencyCode |-> Some("EUR")] >>] }

FeeEntries ==
  { [PostedDate |-> Null, AmazonOrderId |-> Null, SellerSKU |-> Null, ASIN |-> Null,
     nodes |-> << [CurrencyAmount |-> 3, CurrencyCode |-> Some("GBP")] >>],
    [PostedDate |-> Null, AmazonOrderId |-> Null, SellerSKU |-> Null, ASIN |-> Null,
     nodes |-> << >>] }

EntryLists(pool) ==
  {<<>>} \cup { <<e>> : e \in pool } \cup { <<e1, e2>> : e1 \in pool, e2 \in pool }

\* payload.FinancialEvents of one listFinancialEvents response: one named list
UpstreamEventPages ==
  { [listKey |-> "RefundEventList", entries |-> es] : es \in EntryLists(RefundEntries) }
  \cup { [listKey |-> "ServiceFeeEventList", entries |-> es] : es \in EntryLists(FeeEntries) }

\* a page of one service fee that carries no PostedDate
UndatedFeePage ==
  CHOOSE p \in UpstreamEventPages :
    /\ p.listKey = "ServiceFeeEventList"
    /\ Len(p.entries) = 1
    /\ p.entries[1].nodes # <<>>

\* what the feed holds: one or two pages, the last without a NextToken; a
\* second page repeats the first or is the undated fee
UpstreamPayloads ==
  { <<p>> : p \in UpstreamEventPages }
  \cup { <<p, p>> : p \in UpstreamEventPages }
  \cup { <<p, UndatedFeePage>> : p \in UpstreamEventPages }

\* listKey.replace(/List$/, "")
normalizeEventType(listKey) ==
  CASE listKey = "RefundEventList" -> "RefundEvent"
    [] listKey = "ServiceFeeEventList" -> "ServiceFeeEvent"
    [] listKey = "ProductAdsPaymentEventList" -> "ProductAdsPaymentEvent"
    [] OTHER -> listKey

RECURSIVE sumCurrencyNodes(_)
sumCurrencyNodes(nodes) ==
  IF nodes = <<>> THEN 0
  ELSE nodes[Len(nodes)].CurrencyAmount + sumCurrencyNodes(SubSeq(nodes, 1, Len(nodes) - 1))

\* the first currency code found, "GBP" when there is none
firstCurrency(nodes) ==
  LET coded == { i \in 1..Len(nodes) : nodes[i].CurrencyCode # Null }
  IN IF coded = {} THEN "GBP"
     ELSE nodes[CHOOSE i \in coded : \A j \in coded : i <= j].CurrencyCode[1]

\* the posted date of an entry with no PostedDate is new Date(), the instant
\* of the call
findDate(entry, clock) ==
  IF entry.PostedDate # Null THEN entry.PostedDate[1] ELSE clock

\* value ?? ""
orEmpty(value) == IF value = Null THEN "" ELSE value[1]

\* The sha1 of the joined seed, taken as the seed itself.
buildEventKey(input) ==
  << input.eventType, input.postedDate, orEmpty(input.amazonOrderId),
     orEmpty(input.sku), orEmpty(input.asin), input.amount, input.currency,
     input.index >>

\* Null when the entry is dropped
flattenSingleEvent(listKey, entry, index, clock) ==
  IF entry.nodes = <<>> THEN Null
  ELSE LET fields ==
             [eventType |-> normalizeEventType(listKey),
              postedDate |-> findDate(entry, clock),
              amazonOrderId |-> entry.AmazonOrderId,
              sku |-> entry.SellerSKU,
              asin |-> entry.ASIN,
              amount |-> sumCurrencyNodes(entry.nodes),
              currency |-> firstCurrency(entry.nodes),
              index |-> index]
       IN Some([eventKey |-> buildEventKey(fields),
                postedDate |-> fields.postedDate,
                eventType |-> fields.eventType,
                amount |-> fields.amount,
                currency |-> fields.currency,
                amazonOrderId |-> fields.amazonOrderId,
                sku |-> fields.sku,
                asin |-> fields.asin])

RECURSIVE flattenEntries(_, _, _, _)
\* the first n entries of the list, flattened; index counts from 0
flattenEntries(listKey, entries, n, clock) ==
  IF n = 0 THEN <<>>
  ELSE flattenEntries(listKey, entries, n - 1, clock)
         \o flattenSingleEvent(listKey, entries[n], n - 1, clock)

flattenFinancialEvents(page, clock) ==
  flattenEntries(page.listKey, page.entries, Len(page.entries), clock)

\* the condition of the do-while of fetchFinancialEvents
moreEventPagesWanted(nextToken, pagesFetched, maxPages) ==
  nextToken # Null /\ pagesFetched < maxPages

RECURSIVE dedupeEvents(_)
\* deduped.set(event.eventKey, event) for every event in turn
dedupeEvents(events) ==
  IF events = <<>> THEN <<>>
  ELSE LET front == dedupeEvents(SubSeq(events, 1, Len(events) - 1))
           event == events[Len(events)]
           seen == { i \in 1..Len(front) : front[i].eventKey = event.eventKey }
       IN IF seen = {} THEN Append(front, event)
          ELSE [i \in 1..Len(front) |-> IF i \in seen THEN event ELSE front[i]]

(***************************************************************************)
(* Reconciliation writer: src/unnamed/part_009 (lib/sync/financesSync.ts). *)
(***************************************************************************)

\* the words of the taxonomy that occur in an event type, upper-cased
KeywordsIn(eventType) ==
  CASE eventType = "RefundEvent" -> {"REFUND"}
    [] eventType = "GuaranteeClaimEvent" -> {"GUARANTEE"}
    [] eventType = "ServiceFeeEvent" -> {"SERVICEFEE"}
    [] eventType = "ProductAdsPaymentEvent" -> {"PRODUCTADS"}
    [] eventType = "AdhocDisbursementEvent" -> {"ADHOCDISBURSEMENT"}
    [] OTHER -> {}

isRefundEventType(eventType) ==
  {"REFUND", "CHARGEBACK", "GUARANTEE"} \cap KeywordsIn(eventType) # {}

FinancialEventRow(id, event, safeAmazonOrderId) ==
  [id |-> id,
   eventKey |-> event.eventKey,
   postedDate |-> event.postedDate,
   eventType |-> event.eventType,
   amount |-> event.amount,
   currency |-> event.currency,
   marketplaceId |-> Some(MarketplaceId),
   amazonOrderId |-> safeAmazonOrderId,
   asin |-> event.asin,
   sku |-> event.sku]

\* a slip that inserts a row whether or not the key exists
upsertFinancialEvent_AlwaysCreate(table, event, safeAmazonOrderId) ==
  Append(table, FinancialEventRow(Len(table) + 1, event, safeAmazonOrderId))

\* prisma.financialEvent.upsert by eventKey
upsertFinancialEvent(table, event, safeAmazonOrderId) ==
  LET match == { i \in 1..Len(table) : table[i].eventKey = event.eventKey }
  IN IF match = {}
       THEN Append(table, FinancialEventRow(Len(table) + 1, event, safeAmazonOrderId))
       ELSE [i \in 1..Len(table) |->
              IF i \in match THEN FinancialEventRow(i, event, safeAmazonOrderId)
              ELSE table[i]]

\* financialEvent.id of the upserted row
upsertedEventId(table, event) ==
  CHOOSE i \in 1..Len(table) :
    /\ table[i].eventKey = event.eventKey
    /\ \A j \in 1..Len(table) : table[j].eventKey = event.eventKey => j <= i

RECURSIVE SeqOfSet(_)
\* rows of a findMany, by ascending id
SeqOfSet(rows) ==
  IF rows = {} THEN <<>>
  ELSE LET first == CHOOSE r \in rows : \A q \in rows : r.id <= q.id
       IN <<first>> \o SeqOfSet(rows \ {first})

\* the persisted items of order A the finances sync starts from
StoredItems(kinds) ==
  { [id |-> i,
     amazonOrderId |-> "A",
     sku |-> Null,
     asin |-> Null,
     quantityOrdered |-> kinds[i].quantityOrdered,
     itemPrice |-> kinds[i].itemPrice,
     itemTax |-> kinds[i].itemTax,
     promotionDiscount |-> kinds[i].promotionDiscount,
     isRefunded |-> FALSE,
     productId |-> Null] : i \in 1..Len(kinds) }

StoredItemSets ==
  { {} } \cup { StoredItems(<<k1, k2>>) : k1 \in {CHOOSE k \in ItemKinds : k.itemTax = Null /\ k.itemPrice # Null},
                                           k2 \in {CHOOSE k \in ItemKinds : k.itemTax # Null /\ k.promotionDiscount = Null} }

SyncFinancesOptions ==
  [maxEventsPages : 1..MaxPagesLimit, dryRun : BOOLEAN]

NoCounts == [eventsUpserted |-> 0, orderItemsMarkedRefunded |-> 0,
             refundAllocationsUpserted |-> 0]

DbIdle ==
  /\ now = 1
  /\ dbOrders = {}
  /\ dbOrderItems = {}
  /\ dbFinancialEvents = <<>>
  /\ dbRefundAllocations = {}

FsIdle ==
  /\ finUpstream = <<>>
  /\ fsOptions = [maxEventsPages |-> 1, dryRun |-> FALSE]
  /\ fsRaw = <<>>
  /\ fsPagesFetched = 0
  /\ fsEvents = <<>>
  /\ fsKnown = {}
  /\ fsItemsByOrder = <<>>
  /\ fsIndex = 0
  /\ fsEventId = 0
  /\ fsAllocations = <<>>
  /\ fsCounts = NoCounts
  /\ fsPc = "off"
  /\ fsRunLog = <<>>
  /\ fsBefore = Null

FsStartState ==
  /\ now = 1
  /\ dbOrders = { [id |-> 1, amazonOrderId |-> "A", purchaseDate |-> 0,
                   marketplaceId |-> MarketplaceId, totalAmount |-> Some(31)] }
  /\ dbOrderItems \in StoredItemSets
  /\ dbFinancialEvents = <<>>
  /\ dbRefundAllocations = {}
  /\ finUpstream \in UpstreamPayloads
  /\ fsOptions = [maxEventsPages |-> 1, dryRun |-> FALSE]
  /\ fsRaw = <<>>
  /\ fsPagesFetched = 0
  /\ fsEvents = <<>>
  /\ fsKnown = {}
  /\ fsItemsByOrder = <<>>
  /\ fsIndex = 0
  /\ fsEventId = 0
  /\ fsAllocations = <<>>
  /\ fsCounts = NoCounts
  /\ fsPc = "idle"
  /\ fsRunLog = <<>>
  /\ fsBefore = Null

\* Time passes.  The clock is read only while events are fetched, so the
\* instants in between are not told apart.
Tick ==
  /\ fsPc \in {"idle", "fetch"}
  /\ now < MaxClock
  /\ now' = now + 1
  /\ UNCHANGED <<dbOrders, dbOrderItems, dbFinancialEvents, dbRefundAllocations,
                 fsVars, allocVars, retryVars, ocVars, dsVars, osVars, runVars>>

\* syncFinancesFromSpApi up to its call of fetchFinancialEvents
FsBegin(options) ==
  /\ fsOptions' = options
  /\ fsRaw' = <<>>
  /\ fsPagesFetched' = 0
  /\ fsEvents' = <<>>
  /\ fsKnown' = {}
  /\ fsItemsByOrder' = <<>>
  /\ fsIndex' = 0
  /\ fsEventId' = 0
  /\ fsAllocations' = <<>>
  /\ fsCounts' = NoCounts
  /\ fsPc' = "fetch"
  /\ fsBefore' = Some([events |-> dbFinancialEvents,
                       allocations |-> dbRefundAllocations,
                       items |-> dbOrderItems])
  /\ UNCHANGED fsRunLog

\* syncFinancesFromSpApi is called
FsCall ==
  /\ fsPc = "idle"
  /\ Len(fsRunLog) < MaxSyncRuns
  /\ \E options \in SyncFinancesOptions : FsBegin(options)
  /\ UNCHANGED <<finUpstream, dbVars, allocVars, retryVars, ocVars, dsVars, osVars, runVars>>

\* one pass of the loop of fetchFinancialEvents; after the last pass the
\* events are deduplicated by key
FsFetchPage ==
  /\ fsPc = "fetch"
  /\ LET page == finUpstream[fsPagesFetched + 1]
         nextToken == IF fsPagesFetched + 1 < Len(finUpstream) THEN Some("token") ELSE Null
         events == fsRaw \o flattenFinancialEvents(page, now)
         pagesFetched == fsPagesFetched + 1
     IN /\ fsRaw' = events
        /\ fsPagesFetched' = pagesFetched
        /\ IF moreEventPagesWanted(nextToken, pagesFetched, fsOptions.maxEventsPages)
             THEN fsPc' = "fetch" /\ fsEvents' = fsEvents
             ELSE fsPc' = "known" /\ fsEvents' = dedupeEvents(events)
  /\ UNCHANGED <<finUpstream, fsOptions, fsKnown, fsItemsByOrder, fsIndex, fsEventId,
                 fsAllocations, fsCounts, fsRunLog, fsBefore, dbVars, allocVars, retryVars, ocVars, dsVars, osVars, runVars>>

\* listFinancialEvents rejects after the transport's retries: the sync throws
FsFetchThrows ==
  /\ fsPc = "fetch"
  /\ fsPc' = "idle"
  /\ fsRunLog' = Append(fsRunLog, [options |-> fsOptions, outcome |-> "thrown",
                                   keys |-> {}, table |-> dbFinancialEvents,
                                   allocations |-> dbRefundAllocations])
  /\ UNCHANGED <<finUpstream, fsBefore, fsOptions, fsRaw, fsPagesFetched, fsEvents, fsKnown,
                 fsItemsByOrder, fsIndex, fsEventId, fsAllocations, fsCounts,
                 dbVars, allocVars, retryVars, ocVars, dsVars, osVars, runVars>>

\* prisma.order.findMany: the order ids of the events that are known locally
FsFindKnownOrders ==
  /\ fsPc = "known"
  /\ LET uniqueOrderIds ==
           { fsEvents[i].amazonOrderId[1] :
               i \in { j \in 1..Len(fsEvents) : fsEvents[j].amazonOrderId # Null } }
     IN fsKnown' = { o.amazonOrderId : o \in { r \in dbOrders : r.amazonOrderId \in uniqueOrderIds } }
  /\ fsPc' = "items"
  /\ UNCHANGED <<finUpstream, fsOptions, fsRaw, fsPagesFetched, fsEvents,
                 fsItemsByOrder, fsIndex, fsEventId, fsAllocations, fsCounts, fsRunLog, fsBefore,
                 dbVars, allocVars, retryVars, ocVars, dsVars, osVars, runVars>>

\* a slip that reads only the items not yet marked refunded
FsFindOrderItems_Unrefunded ==
  /\ fsPc = "items"
  /\ fsItemsByOrder' =
       [id \in fsKnown |-> SeqOfSet({ r \in dbOrderItems : r.amazonOrderId = id /\ ~r.isRefunded })]
  /\ fsIndex' = 1
  /\ fsPc' = "event"
  /\ UNCHANGED <<finUpstream, fsOptions, fsRaw, fsPagesFetched, fsEvents, fsKnown,
                 fsEventId, fsAllocations, fsCounts, fsRunLog, fsBefore,
                 dbVars, allocVars, retryVars, ocVars, dsVars, osVars, runVars>>

\* prisma.orderItem.findMany and the grouping by order id
FsFindOrderItems ==
  /\ fsPc = "items"
  /\ fsItemsByOrder' =
       [id \in fsKnown |-> SeqOfSet({ r \in dbOrderItems : r.amazonOrderId = id })]
  /\ fsIndex' = 1
  /\ fsPc' = "event"
  /\ UNCHANGED <<finUpstream, fsOptions, fsRaw, fsPagesFetched, fsEvents, fsKnown,
                 fsEventId, fsAllocations, fsCounts, fsRunLog, fsBefore,
                 dbVars, allocVars, retryVars, ocVars, dsVars, osVars, runVars>>

\* a slip that links the event to whatever order id upstream names
safeAmazonOrderId_Unchecked(event) == event.amazonOrderId

\* the order link of an event: its order id when the order is known locally
safeAmazonOrderId(event) ==
  IF event.amazonOrderId # Null /\ event.amazonOrderId[1] \in fsKnown
    THEN event.amazonOrderId ELSE Null

\* orderItemsByOrderId.get(id) ?? []
itemsOfOrder(id) ==
  IF id \in DOMAIN fsItemsByOrder THEN fsItemsByOrder[id] ELSE <<>>

allocationsOf(event) ==
  IF safeAmazonOrderId(event) # Null /\ isRefundEventType(event.eventType)
    THEN allocateRefundAmount(Abs(event.amount) * Micro,
                              itemsOfOrder(safeAmazonOrderId(event)[1]))
    ELSE <<>>

\* top of the loop body, not a dry run: the event is upserted
FsUpsertEvent ==
  /\ fsPc = "event"
  /\ fsIndex <= Len(fsEvents)
  /\ ~fsOptions.dryRun
  /\ LET event == fsEvents[fsIndex]
         table == upsertFinancialEvent(dbFinancialEvents, event, safeAmazonOrderId(event))
     IN /\ dbFinancialEvents' = table
        /\ fsEventId' = upsertedEventId(table, event)
        /\ fsAllocations' = allocationsOf(event)
        /\ fsPc' = IF Len(allocationsOf(event)) > 0 THEN "delete" ELSE "clear"
  /\ UNCHANGED <<finUpstream, fsOptions, fsRaw, fsPagesFetched, fsEvents, fsKnown,
                 fsItemsByOrder, fsIndex, fsCounts, fsRunLog, fsBefore,
                 now, dbOrders, dbOrderItems, dbRefundAllocations,
                 allocVars, retryVars, ocVars, dsVars, osVars, runVars>>

\* prisma.refundAllocation.deleteMany of the event's rows
FsDeleteAllocations ==
  /\ fsPc \in {"delete", "clear"}
  /\ dbRefundAllocations' = { a \in dbRefundAllocations : a.financialEventId # fsEventId }
  /\ IF fsPc = "delete"
       THEN /\ fsPc' = "create"
            /\ UNCHANGED <<fsIndex, fsCounts, dsVars, osVars>>
       ELSE /\ fsPc' = "event"
            /\ fsIndex' = fsIndex + 1
            /\ fsCounts' = [fsCounts EXCEPT !.eventsUpserted = @ + 1]
  /\ UNCHANGED <<finUpstream, fsOptions, fsRaw, fsPagesFetched, fsEvents, fsKnown,
                 fsItemsByOrder, fsEventId, fsAllocations, fsRunLog, fsBefore,
                 now, dbOrders, dbOrderItems, dbFinancialEvents,
                 allocVars, retryVars, ocVars, dsVars, osVars, runVars>>

\* every row of the createMany names an OrderItem that is stored
\* (RefundAllocation_orderItemId_fkey)
allocationItemsStored ==
  \A i \in 1..Len(fsAllocations) :
    \E r \in dbOrderItems : r.id = fsAllocations[i].orderItemId

\* prisma.refundAllocation.createMany
FsCreateAllocations ==
  /\ fsPc = "create"
  /\ allocationItemsStored
  /\ dbRefundAllocations' = dbRefundAllocations \cup
       { [financialEventId |-> fsEventId,
          orderItemId |-> fsAllocations[i].orderItemId,
          amount |-> fsAllocations[i].amount,
          currency |-> fsEvents[fsIndex].currency] : i \in 1..Len(fsAllocations) }
  /\ fsPc' = "mark"
  /\ UNCHANGED <<finUpstream, fsOptions, fsRaw, fsPagesFetched, fsEvents, fsKnown,
                 fsItemsByOrder, fsIndex, fsEventId, fsAllocations, fsCounts, fsRunLog, fsBefore,
                 now, dbOrders, dbOrderItems, dbFinancialEvents,
                 allocVars, retryVars, ocVars, dsVars, osVars, runVars>>

\* prisma.orderItem.updateMany: the allocated items are marked refunded
FsMarkRefunded ==
  /\ fsPc = "mark"
  /\ LET ids == { fsAllocations[i].orderItemId : i \in 1..Len(fsAllocations) }
         hit == { r \in dbOrderItems : r.id \in ids }
     IN /\ dbOrderItems' = (dbOrderItems \ hit) \cup { [r EXCEPT !.isRefunded = TRUE] : r \in hit }
        /\ fsCounts' = [fsCounts EXCEPT
                          !.orderItemsMarkedRefunded = @ + Cardinality(hit),
                          !.refundAllocationsUpserted = @ + Len(fsAllocations),
                          !.eventsUpserted = @ + 1]
  /\ fsIndex' = fsIndex + 1
  /\ fsPc' = "event"
  /\ UNCHANGED <<finUpstream, fsOptions, fsRaw, fsPagesFetched, fsEvents, fsKnown,
                 fsItemsByOrder, fsEventId, fsAllocations, fsRunLog, fsBefore,
                 now, dbOrders, dbFinancialEvents, dbRefundAllocations,
                 allocVars, retryVars, ocVars, dsVars, osVars, runVars>>

\* the loop body of a dry run: counts only
FsDryRunEvent ==
  /\ fsPc = "event"
  /\ fsIndex <= Len(fsEvents)
  /\ fsOptions.dryRun
  /\ LET n == Len(allocationsOf(fsEvents[fsIndex]))
     IN fsCounts' = [fsCounts EXCEPT
                       !.orderItemsMarkedRefunded = @ + n,
                       !.refundAllocationsUpserted = @ + n,
                       !.eventsUpserted = @ + 1]
  /\ fsIndex' = fsIndex + 1
  /\ UNCHANGED <<finUpstream, fsOptions, fsRaw, fsPagesFetched, fsEvents, fsKnown,
                 fsItemsByOrder, fsEventId, fsAllocations, fsPc, fsRunLog, fsBefore,
                 dbVars, allocVars, retryVars, ocVars, dsVars, osVars, runVars>>

\* one of the writes of the loop body is rejected: nothing catches it and
\* the sync throws, with no transaction around the writes made so far
FsPersistThrows ==
  /\ ~fsOptions.dryRun
  /\ \/ fsPc = "event" /\ fsIndex <= Len(fsEvents)
     \/ fsPc \in {"delete", "clear", "create", "mark"}
  /\ fsPc' = "thrown"
  /\ UNCHANGED <<finUpstream, fsBefore, fsOptions, fsRaw, fsPagesFetched, fsEvents, fsKnown,
                 fsItemsByOrder, fsIndex, fsEventId, fsAllocations, fsCounts, fsRunLog,
                 dbVars, allocVars, retryVars, ocVars, dsVars, osVars, runVars>>

\* the loop is over: the result is returned
FsReturn ==
  /\ fsPc = "event"
  /\ fsIndex > Len(fsEvents)
  /\ fsPc' = "idle"
  /\ fsRunLog' = Append(fsRunLog,
       [options |-> fsOptions, outcome |-> "returned",
        keys |-> { fsEvents[i].eventKey : i \in 1..Len(fsEvents) },
        table |-> dbFinancialEvents,
        allocations |-> dbRefundAllocations])
  /\ UNCHANGED <<finUpstream, fsBefore, fsOptions, fsRaw, fsPagesFetched, fsEvents, fsKnown,
                 fsItemsByOrder, fsIndex, fsEventId, fsAllocations, fsCounts,
                 dbVars, allocVars, retryVars, ocVars, dsVars, osVars, runVars>>

FsNext ==
  \/ Tick \/ FsCall \/ FsFetchPage \/ FsFetchThrows \/ FsFindKnownOrders
  \/ FsFindOrderItems \/ FsUpsertEvent \/ FsDeleteAllocations
  \/ FsCreateAllocations \/ FsMarkRefunded \/ FsDryRunEvent \/ FsReturn
  \/ FsPersistThrows

(***************************************************************************)
(* Orders sync: src/src/lib/sync/ordersSync.ts.  Every order of the run is *)
(* persisted inside its own prisma.$transaction: the statements of the     *)
(* callback work on the tables as the transaction sees them (osTx), which  *)
(* become the stored tables when it commits and are dropped when it throws.*)
(***************************************************************************)

\* the limits the orders sync is followed under: one page of orders, with
\* the items of the first order or of the first two
SyncOrdersLimits ==
  [maxPages : {1}, maxOrders : {MaxOrdersLimit}, maxOrdersWithItems : 1..MaxItemsLimit]

NoOrderCounts == [ordersUpserted |-> 0, orderItemsUpserted |-> 0, productsUpserted |-> 0]

\* the next id of a table whose rows carry the ids 1, 2, ...
nextId(rows) ==
  IF rows = {} THEN 1
  ELSE (CHOOSE r \in rows : \A q \in rows : q.id <= r.id).id + 1

\* order.MarketplaceId ?? config.marketplaceId, parseMoneyAmount of a
\* missing OrderTotal
OrderRow(id, order) ==
  [id |-> id,
   amazonOrderId |-> order.AmazonOrderId,
   purchaseDate |-> order.PurchaseDate,
   marketplaceId |-> MarketplaceId,
   totalAmount |-> Null]

\* tx.order.upsert by amazonOrderId
upsertOrder(table, order) ==
  LET match == { r \in table : r.amazonOrderId = order.AmazonOrderId }
  IN IF match = {}
       THEN table \cup {OrderRow(nextId(table), order)}
       ELSE (table \ match) \cup { OrderRow(r.id, order) : r \in match }

\* tx.orderItem.deleteMany of the order's items; their RefundAllocation rows
\* go with them (ON DELETE CASCADE)
deleteOrderItems(tables, amazonOrderId) ==
  LET gone == { r \in tables.items : r.amazonOrderId = amazonOrderId }
  IN [tables EXCEPT
        !.items = @ \ gone,
        !.allocations = { a \in @ : a.orderItemId \notin { r.id : r \in gone } }]

\* the Product row upsertProductFromOrderItem settles on, Null when the item
\* has neither ASIN nor SKU; the row is found by asin, then by sku
existingProduct(products, item) ==
  LET bySku == { p \in products : p.sku = Some(item.SellerSKU) }
  IN IF bySku = {} THEN Null ELSE Some(CHOOSE p \in bySku : TRUE)

\* upsertProductFromOrderItem: the products after it, and the id it returns
upsertProductFromOrderItem(products, item) ==
  LET existing == existingProduct(products, item)
  IN IF existing # Null
       THEN [products |-> products, productId |-> Some(existing[1].id)]
       ELSE [products |-> products \cup
                            { [id |-> nextId(products), asin |-> Null,
                               sku |-> Some(item.SellerSKU)] },
             productId |-> Some(nextId(products))]

\* tx.orderItem.create
OrderItemRow(id, amazonOrderId, item, productId) ==
  [id |-> id,
   amazonOrderId |-> amazonOrderId,
   sku |-> Some(item.SellerSKU),
   asin |-> Null,
   quantityOrdered |-> item.QuantityOrdered,
   itemPrice |-> Null,
   itemTax |-> Null,
   promotionDiscount |-> Null,
   isRefunded |-> FALSE,
   productId |-> productId]

\* the stored tables a transaction starts from and commits to
StoredTables ==
  [orders |-> dbOrders, items |-> dbOrderItems, products |-> dbProducts,
   allocations |-> dbRefundAllocations]

\* the order the sync may find already stored: A, with one item that a
\* refund has been allocated to
OsStoredOrder ==
  [id |-> 1, amazonOrderId |-> "A", purchaseDate |-> 1,
   marketplaceId |-> MarketplaceId, totalAmount |-> Some(31)]

OsStoredItem ==
  [id |-> 1, amazonOrderId |-> "A", sku |-> Some("SKU0"), asin |-> Null,
   quantityOrdered |-> 3, itemPrice |-> Some(10), itemTax |-> Null,
   promotionDiscount |-> Null, isRefunded |-> TRUE, productId |-> Null]

\* the refund of order A an earlier sync has stored
OsStoredEvent ==
  FinancialEventRow(1,
    flattenSingleEvent("RefundEventList",
                       CHOOSE e \in RefundEntries : e.AmazonOrderId = Some("A"), 0, 1)[1],
    Some("A"))

\* its allocation to the item
OsStoredAllocation ==
  [financialEventId |-> 1, orderItemId |-> 1, amount |-> 30 * Micro, currency |-> "GBP"]

OsIdle ==
  /\ dbProducts = {}
  /\ osDryRun = FALSE
  /\ osPc = "off"
  /\ osIndex = 0
  /\ osTx = Null
  /\ osCounts = NoOrderCounts
  /\ osResult = Null
  /\ osCommitted = {}

OsStartState ==
  /\ now = 1
  /\ \/ /\ dbOrders = {}
        /\ dbOrderItems = {}
        /\ dbFinancialEvents = <<>>
        /\ dbRefundAllocations = {}
     \/ /\ dbOrders = {OsStoredOrder}
        /\ dbOrderItems = {OsStoredItem}
        /\ dbFinancialEvents = <<OsStoredEvent>>
        /\ dbRefundAllocations = {OsStoredAllocation}
  /\ dbProducts = {}
  /\ osDryRun = FALSE
  /\ osPc = "idle"
  /\ osIndex = 0
  /\ osTx = Null
  /\ osCounts = NoOrderCounts
  /\ osResult = Null
  /\ osCommitted = {}

\* fetchOrdersWithItems is called with the limits of the sync, against an
\* upstream that answers with the pages of upstream
OcBegin(limits, upstream) ==
  /\ ocLimits' = limits
  /\ ocUpstream' = upstream
  /\ ocOrders' = <<>>
  /\ ocNextToken' = Null
  /\ ocPagesFetched' = 0
  /\ ocOrderLimitHit' = FALSE
  /\ ocSorted' = <<>>
  /\ ocIndex' = 0
  /\ ocItems' = <<>>
  /\ ocItemToken' = Null
  /\ ocItemPages' = 0
  /\ ocEntries' = <<>>
  /\ ocOrdersWithItemsFetched' = 0
  /\ ocResult' = Null
  /\ ocPc' = "page"
  /\ ocPageLog' = <<>>
  /\ ocItemRequests' = <<>>
  /\ ocItemFailures' = {}

\* syncOrdersFromSpApi up to its call of fetchOrdersWithItems
OsBegin(dryRun, limits, upstream) ==
  /\ osDryRun' = dryRun
  /\ osPc' = "fetch"
  /\ osIndex' = 0
  /\ osTx' = Null
  /\ osCounts' = NoOrderCounts
  /\ osResult' = Null
  /\ osCommitted' = {}
  /\ OcBegin(limits, upstream)

\* syncOrdersFromSpApi is called
OsCall ==
  /\ osPc = "idle"
  /\ \E dryRun \in BOOLEAN, limits \in SyncOrdersLimits : OsBegin(dryRun, limits, UpstreamPages)
  /\ UNCHANGED <<dbVars, dbProducts, allocVars, retryVars, fsVars, dsVars, runVars>>

\* fetchOrdersWithItems threw: so does the sync
OsFetchThrown ==
  /\ osPc = "fetch"
  /\ ocPc = "thrown"
  /\ osPc' = "thrown"
  /\ UNCHANGED <<osDryRun, osIndex, osTx, osCounts, osResult, osCommitted,
                 dbVars, dbProducts, allocVars, retryVars, ocVars, fsVars, dsVars, runVars>>

\* fetchOrdersWithItems returned: the entries are at hand
OsFetched ==
  /\ osPc = "fetch"
  /\ ocPc = "returned"
  /\ osPc' = "entry"
  /\ UNCHANGED <<osDryRun, osIndex, osTx, osCounts, osResult, osCommitted,
                 dbVars, dbProducts, allocVars, retryVars, ocVars, fsVars, dsVars, runVars>>

\* prisma.$transaction is entered for the next entry
OsBeginTx ==
  /\ osPc = "entry"
  /\ ~osDryRun
  /\ osIndex < Len(ocEntries)
  /\ osTx' = Some([tables |-> StoredTables, step |-> "upsert", item |-> 0])
  /\ osPc' = "tx"
  /\ UNCHANGED <<osDryRun, osIndex, osCounts, osResult, osCommitted,
                 dbVars, dbProducts, allocVars, retryVars, ocVars, fsVars, dsVars, runVars>>

\* tx.order.upsert
OsUpsertOrder ==
  /\ osPc = "tx"
  /\ osTx[1].step = "upsert"
  /\ osTx' = Some([osTx[1] EXCEPT
                     !.tables.orders = upsertOrder(@, ocEntries[osIndex + 1].order),
                     !.step = "delete"])
  /\ UNCHANGED <<osDryRun, osPc, osIndex, osCounts, osResult, osCommitted,
                 dbVars, dbProducts, allocVars, retryVars, ocVars, fsVars, dsVars, runVars>>

\* tx.orderItem.deleteMany
OsDeleteItems ==
  /\ osPc = "tx"
  /\ osTx[1].step = "delete"
  /\ osTx' = Some([osTx[1] EXCEPT
                     !.tables = deleteOrderItems(@, ocEntries[osIndex + 1].order.AmazonOrderId),
                     !.step = "items"])
  /\ UNCHANGED <<osDryRun, osPc, osIndex, osCounts, osResult, osCommitted,
                 dbVars, dbProducts, allocVars, retryVars, ocVars, fsVars, dsVars, runVars>>

\* one pass of the loop over entry.items: the product is upserted and the
\* item row created
OsCreateItem ==
  /\ osPc = "tx"
  /\ osTx[1].step = "items"
  /\ osTx[1].item < Len(ocEntries[osIndex + 1].items)
  /\ LET entry == ocEntries[osIndex + 1]
         item == entry.items[osTx[1].item + 1]
         upserted == upsertProductFromOrderItem(osTx[1].tables.products, item)
         row == OrderItemRow(nextId(osTx[1].tables.items \cup dbOrderItems),
                             entry.order.AmazonOrderId, item, upserted.productId)
     IN /\ osTx' = Some([osTx[1] EXCEPT
                           !.tables.products = upserted.products,
                           !.tables.items = @ \cup {row},
                           !.item = @ + 1])
        /\ osCounts' = [osCounts EXCEPT
                          !.productsUpserted = @ + (IF upserted.productId # Null THEN 1 ELSE 0),
                          !.orderItemsUpserted = @ + 1]
  /\ UNCHANGED <<osDryRun, osPc, osIndex, osResult, osCommitted,
                 dbVars, dbProducts, allocVars, retryVars, ocVars, fsVars, dsVars, runVars>>

\* the callback returns and the transaction commits
OsCommit ==
  /\ osPc = "tx"
  /\ osTx[1].step = "items"
  /\ osTx[1].item = Len(ocEntries[osIndex + 1].items)
  /\ dbOrders' = osTx[1].tables.orders
  /\ dbOrderItems' = osTx[1].tables.items
  /\ dbProducts' = osTx[1].tables.products
  /\ dbRefundAllocations' = osTx[1].tables.allocations
  /\ osTx' = Null
  /\ osCounts' = [osCounts EXCEPT !.ordersUpserted = @ + 1]
  /\ osCommitted' = osCommitted \cup {ocEntries[osIndex + 1].order.AmazonOrderId}
  /\ osIndex' = osIndex + 1
  /\ osPc' = "entry"
  /\ UNCHANGED <<osDryRun, osResult, now, dbFinancialEvents,
                 allocVars, retryVars, ocVars, fsVars, dsVars, runVars>>

\* a slip that leaves the statements of a failed transaction in the tables
OsTxThrows_KeepsWrites ==
  /\ osPc = "tx"
  /\ dbOrders' = osTx[1].tables.orders
  /\ dbOrderItems' = osTx[1].tables.items
  /\ dbProducts' = osTx[1].tables.products
  /\ dbRefundAllocations' = osTx[1].tables.allocations
  /\ osTx' = Null
  /\ osPc' = "thrown"
  /\ UNCHANGED <<osDryRun, osIndex, osCounts, osResult, osCommitted, now,
                 dbFinancialEvents, allocVars, retryVars, ocVars, fsVars, dsVars, runVars>>

\* a statement of the callback, or the commit, fails: the transaction is
\* rolled back and the sync throws (osTx keeps what the transaction had
\* done, for the record only)
OsTxThrows ==
  /\ osPc = "tx"
  /\ osTx' = Some([osTx[1] EXCEPT !.step = "rolled back"])
  /\ osPc' = "thrown"
  /\ UNCHANGED <<osDryRun, osIndex, osCounts, osResult, osCommitted,
                 dbVars, dbProducts, allocVars, retryVars, ocVars, fsVars, dsVars, runVars>>

\* the counts a dry run reports
dryRunOrderCounts(entries) ==
  [ordersUpserted |-> Len(entries),
   orderItemsUpserted |-> SumSeq([i \in 1..Len(entries) |-> Len(entries[i].items)],
                                  Len(entries)),
   productsUpserted |-> SumSeq([i \in 1..Len(entries) |-> Len(entries[i].items)],
                                Len(entries))]

SyncOrdersResult(counts) ==
  Some([dryRun |-> osDryRun,
        ordersFetched |-> Len(ocEntries),
        ordersUpserted |-> counts.ordersUpserted,
        orderItemsUpserted |-> counts.orderItemsUpserted,
        productsUpserted |-> counts.productsUpserted,
        diagnostics |-> ocResult[1]])

\* the dry-run branch and the return
OsDryRunCounts ==
  /\ osPc = "entry"
  /\ osDryRun
  /\ osCounts' = dryRunOrderCounts(ocEntries)
  /\ osResult' = SyncOrdersResult(dryRunOrderCounts(ocEntries))
  /\ osPc' = "returned"
  /\ UNCHANGED <<osDryRun, osIndex, osTx, osCommitted,
                 dbVars, dbProducts, allocVars, retryVars, ocVars, fsVars, dsVars, runVars>>

\* the loop over the entries is over: the result is returned
OsReturn ==
  /\ osPc = "entry"
  /\ ~osDryRun
  /\ osIndex = Len(ocEntries)
  /\ osResult' = SyncOrdersResult(osCounts)
  /\ osPc' = "returned"
  /\ UNCHANGED <<osDryRun, osIndex, osTx, osCounts, osCommitted,
                 dbVars, dbProducts, allocVars, retryVars, ocVars, fsVars, dsVars, runVars>>

OsNext ==
  \/ OsCall \/ OsFetchThrown \/ OsFetched \/ OsBeginTx \/ OsUpsertOrder
  \/ OsDeleteItems \/ OsCreateItem \/ OsCommit \/ OsTxThrows
  \/ OsDryRunCounts \/ OsReturn
  \/ OcNext

(***************************************************************************)
(* Daily summary: src/src/lib/metrics/dailySummary.ts.                     *)
(***************************************************************************)

\* the two routes that call recomputeDailySummary
Callers == {"sync-run", "daily-summary"}

startOfUtcDay(instant) == (instant \div DayTicks) * DayTicks

\* the day of an instant, counted from the epoch
toDateKey(instant) == startOfUtcDay(instant) \div DayTicks

fromDateKey(dateKey) == dateKey * DayTicks

\* today, startDate and endExclusive of a call made at instant clock
windowOf(days, clock) ==
  LET today == startOfUtcDay(clock)
  IN [startDate |-> startOfUtcDay(today - (Max(days, 1) - 1) * DayTicks),
      endExclusive |-> today + DayTicks]

NoWindow == [startDate |-> 0, endExclusive |-> 0]

\* the keywords classifyEvent looks for, by class
classifyEvent(eventType) ==
  [refund |-> {"REFUND", "CHARGEBACK", "GUARANTEE"} \cap KeywordsIn(eventType) # {},
   amazonFee |-> {"SERVICEFEE", "VALUEADDEDSERVICECHARGE", "LOANSERVICING",
                  "CAPACITYRESERVATIONBILLING", "DEBTRECOVERY", "RETROCHARGE"}
                   \cap KeywordsIn(eventType) # {},
   otherFee |-> {"PRODUCTADS", "COUPON", "AFFORDABILITY", "SELLERDEAL",
                 "SELLERREVIEWENROLLMENT"} \cap KeywordsIn(eventType) # {},
   payout |-> {"ADHOCDISBURSEMENT", "PAYWITHAMAZON"} \cap KeywordsIn(eventType) # {}]

\* prisma.order.findMany with include items: the orders of the marketplace
\* bought in the window
findOrders(window) ==
  LET hit == SeqOfSet({ o \in dbOrders :
                          /\ o.marketplaceId = MarketplaceId
                          /\ o.purchaseDate >= window.startDate
                          /\ o.purchaseDate < window.endExclusive })
  IN [i \in 1..Len(hit) |->
        [amazonOrderId |-> hit[i].amazonOrderId,
         purchaseDate |-> hit[i].purchaseDate,
         totalAmount |-> hit[i].totalAmount,
         items |-> SeqOfSet({ r \in dbOrderItems : r.amazonOrderId = hit[i].amazonOrderId })]]

\* prisma.financialEvent.findMany: the events posted in the window
findEvents(window) ==
  LET hit == { i \in 1..Len(dbFinancialEvents) :
                 /\ dbFinancialEvents[i].postedDate >= window.startDate
                 /\ dbFinancialEvents[i].postedDate < window.endExclusive }
      RECURSIVE upTo(_)
      upTo(n) ==
        IF n = 0 THEN <<>>
        ELSE upTo(n - 1) \o (IF n \in hit THEN <<dbFinancialEvents[n]>> ELSE <<>>)
  IN upTo(Len(dbFinancialEvents))

\* cogsBySku.get(sku) ?? cogsByAsin.get(asin) ?? 0
unitCostOf(item, cogs) ==
  LET bySku == { c \in cogs : item.sku # Null /\ c.sku = item.sku }
      byAsin == { c \in cogs : item.asin # Null /\ c.asin = item.asin }
  IN IF bySku # {} THEN (CHOOSE c \in bySku : TRUE).unitCost
     ELSE IF byAsin # {} THEN (CHOOSE c \in byAsin : TRUE).unitCost
     ELSE 0

itemSales(item) ==
  toNumber(item.itemPrice) * item.quantityOrdered + toNumber(item.itemTax)
    - Abs(toNumber(item.promotionDiscount))

orderSales(order) ==
  IF Len(order.items) = 0 THEN toNumber(order.totalAmount)
  ELSE SumSeq([i \in 1..Len(order.items) |-> itemSales(order.items[i])], Len(order.items))

orderUnits(order) ==
  SumSeq([i \in 1..Len(order.items) |-> order.items[i].quantityOrdered], Len(order.items))

orderCogs(order, cogs) ==
  SumSeq([i \in 1..Len(order.items) |->
            unitCostOf(order.items[i], cogs) * order.items[i].quantityOrdered],
         Len(order.items))

\* the event is not skipped by the loop over the events
eventCounted(event, orderIdSet) ==
  ~ (/\ event.marketplaceId # Null
     /\ event.marketplaceId[1] # MarketplaceId
     /\ (event.amazonOrderId = Null \/ event.amazonOrderId[1] \notin orderIdSet))

RECURSIVE firstAppearances(_)
\* the keys of a Map filled in this order
firstAppearances(keys) ==
  IF keys = <<>> THEN <<>>
  ELSE LET front == firstAppearances(SubSeq(keys, 1, Len(keys) - 1))
           key == keys[Len(keys)]
       IN IF \E i \in 1..Len(front) : front[i] = key THEN front ELSE Append(front, key)

countedEvents(orders, events) ==
  LET orderIdSet == { orders[i].amazonOrderId : i \in 1..Len(orders) }
  IN { i \in 1..Len(events) : eventCounted(events[i], orderIdSet) }

\* the keys of dayMap after the two loops, in insertion order
dayKeys(orders, events) ==
  LET counted == countedEvents(orders, events)
      RECURSIVE eventKeys(_)
      eventKeys(n) ==
        IF n = 0 THEN <<>>
        ELSE eventKeys(n - 1)
               \o (IF n \in counted THEN <<toDateKey(events[n].postedDate)>> ELSE <<>>)
  IN firstAppearances([i \in 1..Len(orders) |-> toDateKey(orders[i].purchaseDate)]
                        \o eventKeys(Len(events)))

\* the accumulator of a date key after the two loops
accumulate(dateKey, orders, events, cogs) ==
  LET onDay(i) == toDateKey(orders[i].purchaseDate) = dateKey
      counted == countedEvents(orders, events)
      posted(i) == i \in counted /\ toDateKey(events[i].postedDate) = dateKey
      overOrders(f(_)) ==
        SumSeq([i \in 1..Len(orders) |-> IF onDay(i) THEN f(orders[i]) ELSE 0], Len(orders))
      overEvents(f(_), g(_)) ==
        SumSeq([i \in 1..Len(events) |->
                  IF posted(i) /\ f(classifyEvent(events[i].eventType))
                    THEN g(events[i].amount) ELSE 0], Len(events))
      one(o) == 1
      withCogs(o) == orderCogs(o, cogs)
      isRefund(c) == c.refund
      isAmazonFee(c) == c.amazonFee
      isOtherFee(c) == c.otherFee
      isPayout(c) == c.payout
      same(x) == x
  IN [sales |-> overOrders(orderSales),
      ordersCount |-> overOrders(one),
      units |-> overOrders(orderUnits),
      refunds |-> overEvents(isRefund, Abs),
      amazonFees |-> overEvents(isAmazonFee, Abs),
      otherFees |-> overEvents(isOtherFee, Abs),
      netPayout |-> overEvents(isPayout, same),
      cogs |-> overOrders(withCogs)]

grossProfitOf(accumulator) ==
  accumulator.sales - accumulator.amazonFees - accumulator.cogs

\* a slip that leaves the other fees out of the net profit
netProfitOf_WithoutOtherFees(accumulator, grossProfit) == grossProfit

netProfitOf(accumulator, grossProfit) == grossProfit - accumulator.otherFees

\* the values of the upsert of one date key
summaryRow(dateKey, accumulator) ==
  [date |-> fromDateKey(dateKey),
   marketplaceId |-> MarketplaceId,
   sales |-> accumulator.sales,
   ordersCount |-> accumulator.ordersCount,
   units |-> accumulator.units,
   refunds |-> accumulator.refunds,
   amazonFees |-> accumulator.amazonFees,
   otherFees |-> accumulator.otherFees,
   netPayout |-> accumulator.netPayout,
   cogs |-> accumulator.cogs,
   grossProfit |-> grossProfitOf(accumulator),
   netProfit |-> netProfitOf(accumulator, grossProfitOf(accumulator))]

sameSummaryKey(r, row) == r.date = row.date /\ r.marketplaceId = row.marketplaceId

\* a slip that adds the new values to the row that exists
upsertDailySummary_Additive(table, row) ==
  IF \E r \in table : sameSummaryKey(r, row)
    THEN LET old == CHOOSE r \in table : sameSummaryKey(r, row)
         IN (table \ {old}) \cup
              { [date |-> row.date,
                 marketplaceId |-> row.marketplaceId,
                 sales |-> old.sales + row.sales,
                 ordersCount |-> old.ordersCount + row.ordersCount,
                 units |-> old.units + row.units,
                 refunds |-> old.refunds + row.refunds,
                 amazonFees |-> old.amazonFees + row.amazonFees,
                 otherFees |-> old.otherFees + row.otherFees,
                 netPayout |-> old.netPayout + row.netPayout,
                 cogs |-> old.cogs + row.cogs,
                 grossProfit |-> old.grossProfit + row.grossProfit,
                 netProfit |-> old.netProfit + row.netProfit] }
    ELSE table \cup {row}

\* prisma.dailySummary.upsert by (date, marketplaceId)
upsertDailySummary(table, row) ==
  { r \in table : ~sameSummaryKey(r, row) } \cup {row}

SummaryOrderSets ==
  LET orderA(day) == [id |-> 1, amazonOrderId |-> "A", purchaseDate |-> fromDateKey(day),
                      marketplaceId |-> MarketplaceId, totalAmount |-> Some(31)]
      orderB == [id |-> 2, amazonOrderId |-> "B", purchaseDate |-> fromDateKey(1) + 1,
                 marketplaceId |-> MarketplaceId, totalAmount |-> Some(7)]
  IN { {orderA(0), orderB} }

SummaryItemSets ==
  { { [id |-> 1, amazonOrderId |-> "A", sku |-> Some("SKU1"), asin |-> Null,
       quantityOrdered |-> 2, itemPrice |-> Some(10), itemTax |-> Null,
       promotionDiscount |-> Some(0 - 1), isRefunded |-> FALSE,
       productId |-> Null],
      [id |-> 2, amazonOrderId |-> "A", sku |-> Null, asin |-> Some("ASIN1"),
       quantityOrdered |-> 1, itemPrice |-> Some(5), itemTax |-> Some(1),
       promotionDiscount |-> Null, isRefunded |-> FALSE,
       productId |-> Null] } }

\* the unit cost a COGS entry of SKU1 is saved with
UnitCosts == {4}

\* the events finances syncs bring in while summaries are recomputed, each
\* with the marketplace of its sync
SummaryEvents ==
  LET entry(day, orderId, amount) ==
        [PostedDate |-> Some(fromDateKey(day)), AmazonOrderId |-> orderId,
         SellerSKU |-> Null, ASIN |-> Null,
         nodes |-> << [CurrencyAmount |-> amount, CurrencyCode |-> Some("GBP")] >>]
      from(listKey, e, m) ==
        [event |-> flattenSingleEvent(listKey, e, 0, now)[1], marketplaceId |-> m]
  IN { from("RefundEventList", entry(1, Some("A"), 0 - 30), "MKT2"),
       from("ServiceFeeEventList", entry(1, Null, 0 - 3), MarketplaceId),
       from("ProductAdsPaymentEventList", entry(0, Null, 0 - 2), MarketplaceId) }

DsIdle ==
  /\ dbCogs = {}
  /\ dbDailySummary = {}
  /\ rcWindow = [p \in Callers |-> NoWindow]
  /\ rcOrders = [p \in Callers |-> <<>>]
  /\ rcEvents = [p \in Callers |-> <<>>]
  /\ rcDayMap = [p \in Callers |-> <<>>]
  /\ rcPending = [p \in Callers |-> <<>>]
  /\ rcPc = [p \in Callers |-> "off"]
  /\ rcRuns = [p \in Callers |-> 0]
  /\ rcClean = [p \in Callers |-> FALSE]
  /\ dsQuietRuns = 0
  /\ dsQuietWindow = NoWindow
  /\ dsAfterFirst = {}

DsStartState ==
  /\ now = DayTicks
  /\ dbOrders \in SummaryOrderSets
  /\ dbOrderItems \in SummaryItemSets
  /\ dbFinancialEvents = <<>>
  /\ dbRefundAllocations = {}
  /\ dbCogs = {}
  /\ dbDailySummary = {}
  /\ rcWindow = [p \in Callers |-> NoWindow]
  /\ rcOrders = [p \in Callers |-> <<>>]
  /\ rcEvents = [p \in Callers |-> <<>>]
  /\ rcDayMap = [p \in Callers |-> <<>>]
  /\ rcPending = [p \in Callers |-> <<>>]
  /\ rcPc = [p \in Callers |-> "idle"]
  /\ rcRuns = [p \in Callers |-> 0]
  /\ rcClean = [p \in Callers |-> FALSE]
  /\ dsQuietRuns = 0
  /\ dsQuietWindow = NoWindow
  /\ dsAfterFirst = {}

\* the data the summaries are computed from has changed
DataChanged ==
  /\ rcClean' = [p \in Callers |-> FALSE]
  /\ dsQuietRuns' = 0
  /\ dsQuietWindow' = NoWindow
  /\ dsAfterFirst' = {}

\* a finances sync of some marketplace upserts an event
FinancialEventUpserted ==
  /\ \E upserted \in SummaryEvents :
       LET event == upserted.event
           safe == IF event.amazonOrderId # Null
                      /\ \E o \in dbOrders : o.amazonOrderId = event.amazonOrderId[1]
                     THEN event.amazonOrderId ELSE Null
           table == upsertFinancialEvent(dbFinancialEvents, event, safe)
           id == upsertedEventId(table, event)
       IN /\ Len(table) <= MaxEventRows
          /\ dbFinancialEvents' = [table EXCEPT ![id].marketplaceId = Some(upserted.marketplaceId)]
          /\ dbFinancialEvents' # dbFinancialEvents
  /\ DataChanged
  /\ UNCHANGED <<now, dbOrders, dbOrderItems, dbRefundAllocations, dbCogs,
                 dbDailySummary, rcWindow, rcOrders, rcEvents, rcDayMap, rcPending,
                 rcPc, rcRuns, allocVars, retryVars, ocVars, fsVars, osVars, runVars>>

\* POST of a COGS entry for SKU1: the entry of the sku is updated, or created
CogsSaved ==
  /\ \E unitCost \in UnitCosts :
       LET existing == { c \in dbCogs : c.sku = Some("SKU1") }
       IN /\ dbCogs' = (dbCogs \ existing)
                         \cup { [sku |-> Some("SKU1"), asin |-> Null, unitCost |-> unitCost] }
          /\ dbCogs' # dbCogs
  /\ DataChanged
  /\ UNCHANGED <<dbVars, dbDailySummary, rcWindow, rcOrders, rcEvents, rcDayMap,
                 rcPending, rcPc, rcRuns, allocVars, retryVars, ocVars, fsVars, osVars, runVars>>

\* recomputeDailySummary up to its first query: the window is fixed
RcBegin(p, days) ==
  /\ rcWindow' = [rcWindow EXCEPT ![p] = windowOf(days, now)]
  /\ rcPc' = [rcPc EXCEPT ![p] = "orders"]
  /\ rcRuns' = [rcRuns EXCEPT ![p] = @ + 1]
  /\ rcClean' = [rcClean EXCEPT ![p] = TRUE]
  /\ UNCHANGED <<dbCogs, dbDailySummary, rcOrders, rcEvents, rcDayMap,
                 rcPending, dsQuietRuns, dsQuietWindow, dsAfterFirst>>

\* recomputeDailySummary is called
RcCall(p) ==
  /\ rcPc[p] = "idle"
  /\ rcRuns["sync-run"] + rcRuns["daily-summary"] < MaxRecomputeRuns
  /\ \E days \in {1, MaxWindowDays} : RcBegin(p, days)
  /\ UNCHANGED <<dbVars, allocVars, retryVars, ocVars, fsVars, osVars, runVars>>

RcFindOrders(p) ==
  /\ rcPc[p] = "orders"
  /\ rcOrders' = [rcOrders EXCEPT ![p] = findOrders(rcWindow[p])]
  /\ rcPc' = [rcPc EXCEPT ![p] = "events"]
  /\ UNCHANGED <<dbVars, dbCogs, dbDailySummary, rcWindow, rcEvents, rcDayMap,
                 rcPending, rcRuns, rcClean, dsQuietRuns, dsQuietWindow, dsAfterFirst,
                 allocVars, retryVars, ocVars, fsVars, osVars, runVars>>

RcFindEvents(p) ==
  /\ rcPc[p] = "events"
  /\ rcEvents' = [rcEvents EXCEPT ![p] = findEvents(rcWindow[p])]
  /\ rcPc' = [rcPc EXCEPT ![p] = "cogs"]
  /\ UNCHANGED <<dbVars, dbCogs, dbDailySummary, rcWindow, rcOrders, rcDayMap,
                 rcPending, rcRuns, rcClean, dsQuietRuns, dsQuietWindow, dsAfterFirst,
                 allocVars, retryVars, ocVars, fsVars, osVars, runVars>>

\* prisma.cOGS.findMany and the two loops that fill dayMap
RcFindCogs(p) ==
  /\ rcPc[p] = "cogs"
  /\ LET keys == dayKeys(rcOrders[p], rcEvents[p])
     IN /\ rcPending' = [rcPending EXCEPT ![p] = keys]
        /\ rcDayMap' = [rcDayMap EXCEPT ![p] =
             [k \in { keys[i] : i \in 1..Len(keys) } |->
                accumulate(k, rcOrders[p], rcEvents[p], dbCogs)]]
  /\ rcPc' = [rcPc EXCEPT ![p] = "upsert"]
  /\ UNCHANGED <<dbVars, dbCogs, dbDailySummary, rcWindow, rcOrders, rcEvents,
                 rcRuns, rcClean, dsQuietRuns, dsQuietWindow, dsAfterFirst,
                 allocVars, retryVars, ocVars, fsVars, osVars, runVars>>

\* a write of caller p that is not a repetition of the quiet calls
Disturbs(p) == ~rcClean[p] \/ (dsQuietRuns >= 1 /\ rcWindow[p] # dsQuietWindow)

\* one pass of the loop over dayMap: the row of one date is upserted
RcUpsert(p) ==
  /\ rcPc[p] = "upsert"
  /\ rcPending[p] # <<>>
  /\ LET dateKey == Head(rcPending[p])
     IN dbDailySummary' =
          upsertDailySummary(dbDailySummary, summaryRow(dateKey, rcDayMap[p][dateKey]))
  /\ rcPending' = [rcPending EXCEPT ![p] = Tail(@)]
  /\ rcClean' = [q \in Callers |->
                   IF q = p THEN rcClean[p]
                   ELSE rcClean[q] /\ rcClean[p] /\ rcWindow[q] = rcWindow[p]]
  /\ IF Disturbs(p)
       THEN dsQuietRuns' = 0 /\ dsQuietWindow' = NoWindow /\ dsAfterFirst' = {}
       ELSE UNCHANGED <<dsQuietRuns, dsQuietWindow, dsAfterFirst>>
  /\ UNCHANGED <<dbVars, dbCogs, rcWindow, rcOrders, rcEvents, rcDayMap, rcPc,
                 rcRuns, allocVars, retryVars, ocVars, fsVars, osVars, runVars>>

\* the loop is over: the result is returned
RcReturn(p) ==
  /\ rcPc[p] = "upsert"
  /\ rcPending[p] = <<>>
  /\ rcPc' = [rcPc EXCEPT ![p] = "idle"]
  /\ rcOrders' = [rcOrders EXCEPT ![p] = <<>>]
  /\ rcEvents' = [rcEvents EXCEPT ![p] = <<>>]
  /\ rcDayMap' = [rcDayMap EXCEPT ![p] = <<>>]
  /\ rcWindow' = [rcWindow EXCEPT ![p] = NoWindow]
  /\ rcClean' = [rcClean EXCEPT ![p] = FALSE]
  /\ IF ~rcClean[p]
       THEN UNCHANGED <<dsQuietRuns, dsQuietWindow, dsAfterFirst>>
       ELSE IF dsQuietRuns >= 1 /\ rcWindow[p] = dsQuietWindow
         THEN /\ dsQuietRuns' = Min(dsQuietRuns + 1, 2)
              /\ UNCHANGED <<dsQuietWindow, dsAfterFirst>>
         ELSE /\ dsQuietRuns' = 1
              /\ dsQuietWindow' = rcWindow[p]
              /\ dsAfterFirst' = dbDailySummary
  /\ UNCHANGED <<dbVars, dbCogs, dbDailySummary, rcPending, rcRuns,
                 allocVars, retryVars, ocVars, fsVars, osVars, runVars>>

DsNext ==
  \/ FinancialEventUpserted
  \/ CogsSaved
  \/ \E p \in Callers :
       \/ RcCall(p) \/ RcFindOrders(p) \/ RcFindEvents(p) \/ RcFindCogs(p)
       \/ RcUpsert(p) \/ RcReturn(p)

(***************************************************************************)
(* Full sync run: POST /api/sync/run (src/unnamed/part_019, lines 88-281)  *)
(* and the run ledger (src/src/lib/sync/syncRunLog.ts).  The steps of a    *)
(* run are the orders sync, the finances sync and the daily summary, one   *)
(* after the other; the summary is the caller "sync-run".  The ledger row  *)
(* is followed by its status, error message and warnings (finishedAt and   *)
(* durationMs are left out).                                               *)
(***************************************************************************)

\* maxPages of fetchFinancialEvents when the payload names none
DefaultEventPages == 2

\* the limits the orders step of a run is followed under
RunOrderLimits == [maxPages |-> 1, maxOrders |-> MaxOrdersLimit, maxOrdersWithItems |-> 1]

\* limits of a payload that lets the order cap stop the fetch before the
\* page cap does
RunOrderCapLimits == [maxPages |-> MaxPagesLimit, maxOrders |-> 1, maxOrdersWithItems |-> 1]

\* date.setUTCDate(date.getUTCDate() - days)
subtractDays(instant, days) == instant - days * DayTicks

\* the orders of a page created from createdAfter on and before createdBefore
ordersInWindow(page, createdAfter, createdBefore) ==
  LET inWindow(o) == o.PurchaseDate >= createdAfter /\ o.PurchaseDate < createdBefore
  IN SelectSeq(page, inWindow)

\* what upstream holds during the runs of one behaviour: order A bought on
\* the day before the run, alone or followed by order B, and a refund of
\* order A posted at the start of the day of the run
RunFeeds ==
  LET orderA == [AmazonOrderId |-> "A", PurchaseDate |-> 1]
      orderB == [AmazonOrderId |-> "B", PurchaseDate |-> 2]
      refundA == [PostedDate |-> Some(DayTicks), AmazonOrderId |-> Some("A"),
                  SellerSKU |-> Null, ASIN |-> Null,
                  nodes |-> << [CurrencyAmount |-> 0 - 30, CurrencyCode |-> Some("GBP")] >>]
      events == << [listKey |-> "RefundEventList", entries |-> <<refundA>>] >>
  IN { [orders |-> <<orderA>>, events |-> events],
       [orders |-> <<orderB, orderA>>, events |-> events] }

\* prisma.syncRun.create of startSyncRunLog
startSyncRunLog(rows, input) ==
  Append(rows, [status |-> "running", days |-> input.days, dryRun |-> input.dryRun,
                errorMessage |-> Null, warningsJson |-> Null])

\* a slip that records a failure without its message
finishSyncRunLog_NoMessage(rows, syncRunId, success, warnings, errorMessage) ==
  [rows EXCEPT ![syncRunId].status = IF success THEN "success" ELSE "failed",
               ![syncRunId].warningsJson = IF Len(warnings) > 0 THEN Some(warnings) ELSE Null,
               ![syncRunId].errorMessage = Null]

\* prisma.syncRun.update of finishSyncRunLog
finishSyncRunLog(rows, syncRunId, success, warnings, errorMessage) ==
  [rows EXCEPT ![syncRunId].status = IF success THEN "success" ELSE "failed",
               ![syncRunId].warningsJson = IF Len(warnings) > 0 THEN Some(warnings) ELSE Null,
               ![syncRunId].errorMessage = errorMessage]

\* the units of the orders that carry a SKU or an ASIN and have no unit cost
missingCogsItems(orders, cogs) ==
  LET missing(item) ==
        IF /\ unitCostOf(item, cogs) = 0
           /\ item.quantityOrdered > 0
           /\ (item.sku # Null \/ item.asin # Null)
          THEN item.quantityOrdered ELSE 0
      ofOrder(order) ==
        SumSeq([i \in 1..Len(order.items) |-> missing(order.items[i])], Len(order.items))
  IN SumSeq([i \in 1..Len(orders) |-> ofOrder(orders[i])], Len(orders))

\* finances.diagnostics.eventPageLimitHit: the events loop stopped at
\* maxEventsPages while upstream still held a continuation token
eventPageLimitHit ==
  fsPagesFetched < Len(finUpstream) /\ fsPagesFetched >= fsOptions.maxEventsPages

\* the warnings of the run, in the order they are pushed
syncWarnings(diagnostics, eventLimitHit, missingCogs) ==
  (IF diagnostics.pageLimitHit THEN <<"maxPages">> ELSE <<>>)
    \o (IF diagnostics.ordersSkippedForItems > 0 THEN <<"maxOrdersWithItems">> ELSE <<>>)
    \o (IF eventLimitHit THEN <<"maxEventsPages">> ELSE <<>>)
    \o (IF missingCogs > 0 THEN <<"missingCogs">> ELSE <<>>)

\* truncationFlags of the response
truncationFlags(diagnostics, eventLimitHit) ==
  [orderPageLimitHit |-> diagnostics.pageLimitHit,
   ordersSkippedForItems |-> diagnostics.ordersSkippedForItems > 0,
   eventPageLimitHit |-> eventLimitHit]

\* the tables the steps of a run write
RunStore ==
  [orders |-> dbOrders, items |-> dbOrderItems, products |-> dbProducts,
   events |-> dbFinancialEvents, allocations |-> dbRefundAllocations,
   summaries |-> dbDailySummary]

RunIdle ==
  /\ dbSyncRuns = <<>>
  /\ runFeed = [orders |-> <<>>, events |-> <<>>]
  /\ runOptions = [days |-> 1, dryRun |-> FALSE, limits |-> RunOrderLimits]
  /\ runId = 0
  /\ runPc = "off"
  /\ runLog = <<>>

RunStartState ==
  /\ now = DayTicks + 1
  /\ \/ /\ dbOrders = {}
        /\ dbOrderItems = {}
        /\ dbFinancialEvents = <<>>
        /\ dbRefundAllocations = {}
     \/ /\ dbOrders = {OsStoredOrder}
        /\ dbOrderItems = {OsStoredItem}
        /\ dbFinancialEvents = <<OsStoredEvent>>
        /\ dbRefundAllocations = {OsStoredAllocation}
  /\ dbSyncRuns = <<>>
  /\ runFeed \in RunFeeds
  /\ runOptions = [days |-> 1, dryRun |-> FALSE, limits |-> RunOrderLimits]
  /\ runId = 0
  /\ runPc = "idle"
  /\ runLog = <<>>

\* the payloads POST is followed with: any first, and after a dry run that
\* succeeded the same payload without dryRun
RunPayloads ==
  IF dbSyncRuns = <<>>
    THEN [days : 1..MaxWindowDays, dryRun : BOOLEAN,
          limits : {RunOrderLimits, RunOrderCapLimits}]
  ELSE IF Len(dbSyncRuns) = 1 /\ dbSyncRuns[1].status = "success" /\ dbSyncRuns[1].dryRun
    THEN { [days |-> dbSyncRuns[1].days, dryRun |-> FALSE, limits |-> runOptions.limits] }
  ELSE {}

\* POST up to its call of syncOrdersFromSpApi: the ledger row is created
RunStart ==
  /\ runPc = "idle"
  /\ \E payload \in RunPayloads :
       /\ dbSyncRuns' = startSyncRunLog(dbSyncRuns, payload)
       /\ runOptions' = payload
       /\ runLog' = Append(runLog,
            [options |-> payload, store |-> RunStore, finished |-> FALSE,
             entries |-> <<>>, orders |-> Null, finances |-> Null, summary |-> NoWindow,
             warnings |-> <<>>, response |-> Null])
       /\ OsBegin(payload.dryRun, payload.limits,
                  { ordersInWindow(runFeed.orders, subtractDays(now, Max(payload.days, 1)), now) })
  /\ runId' = Len(dbSyncRuns) + 1
  /\ runPc' = "orders"
  /\ UNCHANGED <<runFeed, dbVars, dbProducts, allocVars, retryVars, fsVars, dsVars>>

\* syncOrdersFromSpApi returned: syncFinancesFromSpApi is called
RunOrdersReturned ==
  /\ runPc = "orders"
  /\ osPc = "returned"
  /\ FsBegin([maxEventsPages |-> DefaultEventPages, dryRun |-> runOptions.dryRun])
  /\ finUpstream' = runFeed.events
  /\ runLog' = [runLog EXCEPT ![runId].entries = ocEntries, ![runId].orders = osResult]
  /\ runPc' = "finances"
  /\ UNCHANGED <<dbSyncRuns, runFeed, runOptions, runId, dbVars, osVars,
                 allocVars, retryVars, ocVars, dsVars>>

\* the result of the finances sync that has just returned
SyncFinancesResult ==
  Some([dryRun |-> fsOptions.dryRun,
        eventsFetched |-> Len(fsEvents),
        eventsUpserted |-> fsCounts.eventsUpserted,
        orderItemsMarkedRefunded |-> fsCounts.orderItemsMarkedRefunded,
        refundAllocationsUpserted |-> fsCounts.refundAllocationsUpserted])

\* syncFinancesFromSpApi returned: recomputeDailySummary is called; it takes
\* days and marketplaceId and knows no dryRun option
RunFinancesReturned ==
  /\ runPc = "finances"
  /\ fsPc = "idle"
  /\ fsRunLog[Len(fsRunLog)].outcome = "returned"
  /\ RcBegin("sync-run", runOptions.days)
  /\ runLog' = [runLog EXCEPT ![runId].finances = SyncFinancesResult,
                              ![runId].summary = windowOf(runOptions.days, now)]
  /\ runPc' = "summary"
  /\ UNCHANGED <<dbSyncRuns, runFeed, runOptions, runId, dbVars, osVars,
                 allocVars, retryVars, ocVars, fsVars>>

\* a query or an upsert of recomputeDailySummary is rejected: it throws
RcThrows(p) ==
  /\ rcPc[p] \in {"orders", "events", "cogs", "upsert"}
  /\ rcPc' = [rcPc EXCEPT ![p] = "thrown"]
  /\ UNCHANGED <<dbVars, dbCogs, dbDailySummary, rcWindow, rcOrders, rcEvents,
                 rcDayMap, rcPending, rcRuns, rcClean, dsQuietRuns, dsQuietWindow,
                 dsAfterFirst, allocVars, retryVars, ocVars, fsVars, osVars, runVars>>

\* recomputeDailySummary returned: finishSyncRunLog marks the run a success
RunFinish ==
  /\ runPc = "summary"
  /\ rcPc["sync-run"] = "idle"
  /\ LET warnings == syncWarnings(runLog[runId].orders[1].diagnostics, eventPageLimitHit,
                                  missingCogsItems(findOrders(runLog[runId].summary), dbCogs))
     IN /\ dbSyncRuns' = finishSyncRunLog(dbSyncRuns, runId, TRUE, warnings, Null)
        /\ runLog' = [runLog EXCEPT ![runId].finished = TRUE, ![runId].warnings = warnings]
  /\ runPc' = "respond"
  /\ UNCHANGED <<runFeed, runOptions, runId, dbVars, osVars,
                 allocVars, retryVars, ocVars, fsVars, dsVars>>

\* the ledger write of that finishSyncRunLog is rejected: it throws and the
\* row stays as it was
RunFinishThrows ==
  /\ runPc = "summary"
  /\ rcPc["sync-run"] = "idle"
  /\ runPc' = "rejected"
  /\ UNCHANGED <<dbSyncRuns, runFeed, runOptions, runId, runLog, dbVars, osVars,
                 allocVars, retryVars, ocVars, fsVars, dsVars>>

\* a slip that takes the error path after the run was marked a success
RunRespond_ThroughCatch ==
  /\ runPc = "respond"
  /\ dbSyncRuns' = finishSyncRunLog(dbSyncRuns, runId, FALSE, <<>>, Some("respond"))
  /\ runPc' = "idle"
  /\ UNCHANGED <<runFeed, runOptions, runId, runLog, dbVars, osVars,
                 allocVars, retryVars, ocVars, fsVars, dsVars>>

\* the rest of the try block: the completion is logged and the response
\* built, from values the steps above have already read
RunRespond ==
  /\ runPc = "respond"
  /\ runLog' = [runLog EXCEPT ![runId].response =
       Some([warnings |-> runLog[runId].warnings,
             truncationFlags |-> truncationFlags(runLog[runId].orders[1].diagnostics,
                                                 eventPageLimitHit)])]
  /\ runPc' = "idle"
  /\ UNCHANGED <<dbSyncRuns, runFeed, runOptions, runId, dbVars, osVars,
                 allocVars, retryVars, ocVars, fsVars, dsVars>>

\* the message of the error the running step has thrown, Null when none has
ThrownMessage ==
  IF runPc = "orders" /\ osPc = "thrown" THEN Some("orders")
  ELSE IF runPc = "finances"
          /\ \/ fsPc = "thrown"
             \/ fsPc = "idle" /\ fsRunLog[Len(fsRunLog)].outcome = "thrown"
    THEN Some("finances")
  ELSE IF runPc = "summary" /\ rcPc["sync-run"] = "thrown" THEN Some("summary")
  ELSE IF runPc = "rejected" THEN Some("ledger")
  ELSE Null

\* the catch block: finishSyncRunLog marks the run failed with the message
\* of the error, and the error response is returned
RunCatch ==
  /\ ThrownMessage # Null
  /\ dbSyncRuns' = finishSyncRunLog(dbSyncRuns, runId, FALSE, <<>>, ThrownMessage)
  /\ runPc' = "idle"
  /\ UNCHANGED <<runFeed, runOptions, runId, runLog, dbVars, osVars,
                 allocVars, retryVars, ocVars, fsVars, dsVars>>

RunNext ==
  \/ RunStart \/ RunOrdersReturned \/ RunFinancesReturned \/ RunFinish
  \/ RunFinishThrows \/ RunRespond \/ RunCatch
  \/ OcFetchPage \/ OcFetchPageThrows \/ OcSort \/ OcSkipItems
  \/ OcFetchItemsPage \/ OcFetchItemsThrows \/ OcReturn
  \/ OsFetchThrown \/ OsFetched \/ OsBeginTx \/ OsUpsertOrder \/ OsDeleteItems
  \/ OsCreateItem \/ OsCommit \/ OsTxThrows \/ OsDryRunCounts \/ OsReturn
  \/ FsFetchPage \/ FsFetchThrows \/ FsFindKnownOrders \/ FsFindOrderItems
  \/ FsUpsertEvent \/ FsDeleteAllocations \/ FsCreateAllocations
  \/ FsMarkRefunded \/ FsDryRunEvent \/ FsReturn \/ FsPersistThrows
  \/ RcFindOrders("sync-run") \/ RcFindEvents("sync-run") \/ RcFindCogs("sync-run")
  \/ RcUpsert("sync-run") \/ RcReturn("sync-run") \/ RcThrows("sync-run")

(***************************************************************************)
(* Specifications: one per component, the other components at rest.        *)
(***************************************************************************)
AllocInit == AllocStart /\ RetryIdle /\ OcIdle /\ DbIdle /\ FsIdle /\ DsIdle /\ OsIdle /\ RunIdle

SpecAlloc == AllocInit /\ [][AllocNext]_vars

RetryInit == RetryStart /\ AllocIdle /\ OcIdle /\ DbIdle /\ FsIdle /\ DsIdle /\ OsIdle /\ RunIdle

SpecRetry == RetryInit /\ [][RetryNext]_vars

OcInit == OcStart /\ AllocIdle /\ RetryIdle /\ DbIdle /\ FsIdle /\ DsIdle /\ OsIdle /\ RunIdle

SpecOrders == OcInit /\ [][OcNext]_vars

FsInit == FsStartState /\ AllocIdle /\ RetryIdle /\ OcIdle /\ DsIdle /\ OsIdle /\ RunIdle

SpecFinances == FsInit /\ [][FsNext]_vars
DsInit == DsStartState /\ AllocIdle /\ RetryIdle /\ OcIdle /\ FsIdle /\ OsIdle /\ RunIdle
SpecSummary == DsInit /\ [][DsNext]_vars

OsInit == AllocIdle /\ RetryIdle /\ OcIdle /\ FsIdle /\ DsIdle /\ OsStartState /\ RunIdle
SpecOrdersSync == OsInit /\ [][OsNext]_vars

RunInit == AllocIdle /\ RetryIdle /\ OcIdle /\ FsIdle /\ DsIdle /\ OsIdle /\ RunStartState
SpecRun == RunInit /\ [][RunNext]_vars

(***************************************************************************)
(* Claims about the refund allocator.                                      *)
(***************************************************************************)
SumAmounts(allocations) ==
  SumSeq([i \in 1..Len(allocations) |-> allocations[i].amount], Len(allocations))

\* C1: for every amount > 0 and every non-empty item list, the allocations
\* returned by allocateRefundAmount sum to the amount within 1e-6 (one
\* micro-unit).
C1_AllocationsSumToAmount ==
  (allocPc = "returned" /\ allocAmount > 0 /\ Len(allocItems) > 0)
    => Abs(SumAmounts(allocResult) - allocAmount) <= 1

(***************************************************************************)
(* Claims about the retrying transport.                                    *)
(***************************************************************************)
RetryableStatuses == {429, 500, 502, 503, 504}

LastCall == rtCalls[Len(rtCalls)]

AllFailedRetryably(n) == \A i \in 1..n : rtCalls[i] \in RetryableStatuses

\* C6: withSpApiRetry sleeps and calls fn again only after a failure whose
\* status is 429, 500, 502, 503 or 504; a failure with another status or with
\* none is rethrown at once: no sleep follows it and fn is not called again,
\* however many attempts remain.
C6_OnlyRetryableStatusesRetry ==
  /\ \A i \in 1..Len(rtSleeps) : rtCalls[i] \in RetryableStatuses
  /\ (Len(rtCalls) > 0 /\ LastCall # 0 /\ LastCall \notin RetryableStatuses)
       => /\ rtPc = "thrown"
          /\ rtOutcome = rtLastError
          /\ getStatusCode(rtOutcome[1]) = LastCall
          /\ Len(rtSleeps) = Len(rtCalls) - 1

\* C6 witness: with four attempts allowed, a 503 was retried and the second
\* call failed with no status at all: thrown after two calls and one sleep.
C6_Witness ==
  /\ rtOptions.attempts = 4
  /\ rtCalls = <<503, NoStatus>>
  /\ rtPc = "thrown"
  /\ Len(rtSleeps) = 1

\* C7: for attempts = N >= 1 and an fn whose first k calls fail retryably: if
\* k < N and call k+1 succeeds, that result is returned after exactly k+1
\* calls; if k >= N, fn is called exactly N times and the error of the N-th
\* call is thrown unchanged.
C7_RetryCountsAndLastError ==
  rtOptions.attempts >= 1 =>
    LET n == Len(rtCalls)
        N == rtOptions.attempts
    IN /\ n <= N
       /\ (n >= 1 /\ LastCall = 0)
            => (rtPc = "returned" /\ rtOutcome \in {Some(v) : v \in Responses})
       /\ rtPc = "returned" => (n >= 1 /\ LastCall = 0 /\ AllFailedRetryably(n - 1))
       /\ (AllFailedRetryably(n) /\ n < N) => rtPc \in {"call", "sleep"}
       /\ (AllFailedRetryably(n) /\ n = N)
            => /\ rtPc = "thrown"
               /\ rtOutcome = rtLastError
               /\ getStatusCode(rtOutcome[1]) = LastCall
               /\ Len(rtSleeps) = N - 1

\* C7 witness: three consecutive 503s, then a success, with attempts = 4:
\* returned after exactly four calls.
C7_Witness ==
  /\ rtOptions.attempts = 4
  /\ rtCalls = <<503, 503, 503, 0>>
  /\ rtPc = "returned"

(***************************************************************************)
(* Claims about the order collector.                                       *)
(***************************************************************************)
OcLoopOver == ocPc \in {"sort", "items", "returned"}

\* C8: no further orders page is requested once the accumulated order count
\* (before deduplication) has reached maxOrders, and orderLimitHit is set
\* exactly in that case; with maxOrders = 2 and an upstream whose pages carry
\* 2 orders and a continuation token, the result has exactly 2 orders,
\* orderLimitHit = true and pagesFetched = 1.
C8_OrderLimitStopsPaging ==
  /\ Len(ocOrders) >= ocLimits.maxOrders => ocPc # "page"
  /\ Len(ocPageLog) = ocPagesFetched
  /\ ocOrderLimitHit <=> (Len(ocOrders) >= ocLimits.maxOrders)
  /\ ocPc = "returned" =>
       /\ ocResult[1].orderLimitHit <=> (Len(ocOrders) >= ocLimits.maxOrders)
       /\ ( /\ ocLimits.maxOrders = 2
            /\ \A i \in 1..Len(ocPageLog) :
                 /\ Len(ocPageLog[i].orders) = 2
                 /\ ocPageLog[i].orders[1].AmazonOrderId
                      # ocPageLog[i].orders[2].AmazonOrderId
                 /\ ocPageLog[i].token # Null )
            => /\ Len(ocEntries) = 2
               /\ ocResult[1].orderLimitHit
               /\ ocResult[1].pagesFetched = 1

\* C8 witness: maxOrders = 2, more pages allowed, the first page brought two
\* orders and a continuation token, and the call returned.
C8_Witness ==
  /\ ocPc = "returned"
  /\ ocLimits.maxOrders = 2
  /\ ocLimits.maxPages = 2
  /\ Len(ocPageLog) = 1
  /\ Len(ocPageLog[1].orders) = 2
  /\ ocPageLog[1].orders[1].AmazonOrderId # ocPageLog[1].orders[2].AmazonOrderId
  /\ ocPageLog[1].token # Null
  /\ Len(ocEntries) = 2
  /\ ocResult[1].orderLimitHit

\* C9: for maxPages >= 1 at most maxPages orders pages are requested
\* (1 <= pagesFetched <= maxPages); the loop is over only when the last page
\* brought no continuation token, the page limit is reached or the order
\* limit is hit; and pageLimitHit holds iff the last fetched page returned a
\* continuation token and pagesFetched >= maxPages.
C9_PageLimit ==
  ocLimits.maxPages >= 1 =>
    /\ Len(ocPageLog) <= ocLimits.maxPages
    /\ ocPagesFetched <= ocLimits.maxPages
    /\ ocPc = "page" => ocPagesFetched < ocLimits.maxPages
    /\ OcLoopOver =>
         /\ ocPagesFetched >= 1
         /\ \/ ocPageLog[Len(ocPageLog)].token = Null
            \/ ocPagesFetched >= ocLimits.maxPages
            \/ Len(ocOrders) >= ocLimits.maxOrders
    /\ ocPc = "returned" =>
         /\ ocResult[1].pagesFetched = Len(ocPageLog)
         /\ ocResult[1].pageLimitHit <=>
              ( /\ ocPageLog[Len(ocPageLog)].token # Null
                /\ ocResult[1].pagesFetched >= ocLimits.maxPages )

\* C9 witness: two pages allowed, both fetched, the second still brought a
\* continuation token and the order limit was not hit.
C9_Witness ==
  /\ ocPc = "returned"
  /\ ocLimits.maxPages = 2
  /\ ocResult[1].pagesFetched = 2
  /\ ocResult[1].pageLimitHit
  /\ ~ocResult[1].orderLimitHit

IsDateDescending(orders) ==
  \A i \in 1..Len(orders), j \in 1..Len(orders) :
    i < j => orders[i].PurchaseDate >= orders[j].PurchaseDate

\* the orders whose line items are to be requested
ItemsQuota == Min(ocLimits.maxOrdersWithItems, Len(ocSorted))

\* C10: line items are requested only for the first
\* min(maxOrdersWithItems, unique orders) orders of the
\* purchase-date-descending list, every later order is returned with an empty
\* item list, ordersWithItemsFetched <= maxOrdersWithItems and
\* ordersWithItemsFetched + ordersSkippedForItems = uniqueOrdersFetched.
C10_ItemsOnlyForMostRecent ==
  /\ \A r \in 1..Len(ocItemRequests) :
       \E i \in 1..ItemsQuota : ocSorted[i].AmazonOrderId = ocItemRequests[r]
  /\ ocPc = "returned" =>
       /\ IsDateDescending(ocSorted)
       /\ Len(ocEntries) = Len(ocSorted)
       /\ \A i \in 1..Len(ocSorted) : ocEntries[i].order = ocSorted[i]
       /\ \A i \in 1..ItemsQuota :
            \E r \in 1..Len(ocItemRequests) : ocItemRequests[r] = ocSorted[i].AmazonOrderId
       /\ \A i \in (ItemsQuota + 1)..Len(ocEntries) : ocEntries[i].items = <<>>
       /\ ocResult[1].ordersWithItemsFetched = ItemsQuota
       /\ ocResult[1].ordersWithItemsFetched <= ocLimits.maxOrdersWithItems
       /\ ocResult[1].uniqueOrdersFetched = Len(ocSorted)
       /\ ocResult[1].ordersWithItemsFetched + ocResult[1].ordersSkippedForItems
            = ocResult[1].uniqueOrdersFetched

\* C10 witness: two unique orders, maxOrdersWithItems = 1: the more recent
\* one got its items, the other was skipped.
C10_Witness ==
  /\ ocPc = "returned"
  /\ ocLimits.maxOrdersWithItems = 1
  /\ Len(ocSorted) = 2
  /\ ocSorted[1].PurchaseDate > ocSorted[2].PurchaseDate
  /\ ocEntries[1].items # <<>>
  /\ ocEntries[2].items = <<>>
  /\ ocResult[1].ordersSkippedForItems = 1

(***************************************************************************)
(* Claims about the finances sync                                          *)
(***************************************************************************)

RowsWithKey(table, key) == { i \in 1..Len(table) : table[i].eventKey = key }

\* the runs that returned and wrote to the store
WritingRuns ==
  { r \in 1..Len(fsRunLog) :
      fsRunLog[r].outcome = "returned" /\ ~fsRunLog[r].options.dryRun }

\* the sync is past the fetch and works on the deduplicated events
FsPastFetch == fsPc \in {"known", "items", "event", "delete", "clear", "create", "mark"}

\* C2: persisting by event key is idempotent.  No two FinancialEvent rows
\* share an event key, every key a finished writing sync processed has
\* exactly one row however many syncs processed it, and the events a sync
\* persists hold each key of its fetch exactly once.
C2_EventKeyIdempotent ==
  /\ \A i, j \in 1..Len(dbFinancialEvents) :
       dbFinancialEvents[i].eventKey = dbFinancialEvents[j].eventKey => i = j
  /\ \A r \in WritingRuns : \A key \in fsRunLog[r].keys :
       Cardinality(RowsWithKey(dbFinancialEvents, key)) = 1
  /\ FsPastFetch =>
       /\ \A i, j \in 1..Len(fsEvents) :
            fsEvents[i].eventKey = fsEvents[j].eventKey => i = j
       /\ { fsEvents[i].eventKey : i \in 1..Len(fsEvents) }
            = { fsRaw[i].eventKey : i \in 1..Len(fsRaw) }

\* two writing syncs have processed one key, and the fetch of the second
\* held that key more than once
C2_Witness ==
  /\ Len(fsRunLog) = 2
  /\ WritingRuns = {1, 2}
  /\ fsRunLog[1].keys \cap fsRunLog[2].keys # {}
  /\ Len(fsRaw) > Len(fsEvents)
  /\ fsPc = "idle"

\* C4: two finances syncs over an unchanged upstream payload leave the
\* FinancialEvent rows the first one left.
C4_SecondSyncLeavesSameRows ==
  (/\ Len(fsRunLog) = 2
   /\ WritingRuns = {1, 2}
   /\ fsRunLog[1].options = fsRunLog[2].options)
  => fsRunLog[2].table = fsRunLog[1].table

(***************************************************************************)
(* Claims about the daily summary                                          *)
(***************************************************************************)

\* C3: recomputing twice for the same window and marketplace with the data
\* unchanged leaves every DailySummary row as the first call left it.
C3_RecomputeTwiceSameRows ==
  dsQuietRuns >= 1 => dbDailySummary = dsAfterFirst

\* one caller has recomputed twice, nothing else has happened since its first
\* call began, and the rows hold sales and refunds
C3_Witness ==
  /\ dsQuietRuns = 2
  /\ rcRuns = [p \in Callers |-> IF p = "daily-summary" THEN 2 ELSE 0]
  /\ rcPc["daily-summary"] = "idle"
  /\ \E r \in dbDailySummary : r.refunds > 0
  /\ \E r \in dbDailySummary : r.sales > 0 /\ r.cogs > 0

\* C5: every DailySummary row satisfies the two profit identities, in every
\* reachable state, also while several recomputations interleave their
\* upserts.
C5_ProfitIdentities ==
  \A r \in dbDailySummary :
    /\ r.grossProfit = r.sales - r.amazonFees - r.cogs
    /\ r.netProfit = r.grossProfit - r.otherFees

\* two calls interleave their upserts: one has written its rows while the
\* other is between its first and its second, and the rows hold fees of both
\* kinds and cost of goods
C5_Witness ==
  /\ \A p \in Callers : rcPc[p] = "upsert" /\ Cardinality(DOMAIN rcDayMap[p]) = 2
  /\ rcPending["sync-run"] = <<>>
  /\ Len(rcPending["daily-summary"]) = 1
  /\ \E r \in dbDailySummary : r.otherFees > 0 /\ r.cogs > 0
  /\ \E r \in dbDailySummary : r.amazonFees > 0 /\ r.sales > 0

(***************************************************************************)
(* Orders sync.                                                            *)
(***************************************************************************)
\* the orders whose items fetchOrdersWithItems asks for: the first
\* maxOrdersWithItems of the sorted orders
OrdersInItemsQuota ==
  { ocSorted[i].AmazonOrderId : i \in 1..Min(Len(ocSorted), ocLimits.maxOrdersWithItems) }

CommittedRows ==
  [orders |-> { o \in dbOrders : o.amazonOrderId \in osCommitted },
   items |-> { r \in dbOrderItems : r.amazonOrderId \in osCommitted }]

\* C12: the statements of one order's transaction show in the stored tables
\* only when it commits: while it runs and when it fails the tables stay as
\* they were (the order's earlier items included), and the rows of the
\* orders committed before stay as committed.
C12_OrderTransactionAtomic ==
  [][ /\ (osPc = "tx" /\ osPc' \in {"tx", "thrown"}) =>
           UNCHANGED <<dbOrders, dbOrderItems, dbProducts, dbRefundAllocations>>
      /\ osPc \in {"entry", "tx"} =>
           /\ osCommitted \subseteq osCommitted'
           /\ \A id \in osCommitted :
                /\ { o \in dbOrders : o.amazonOrderId = id }
                     = { o \in dbOrders' : o.amazonOrderId = id }
                /\ { r \in dbOrderItems : r.amazonOrderId = id }
                     = { r \in dbOrderItems' : r.amazonOrderId = id }
    ]_vars

\* the transaction of stored order A failed after it had deleted A's item
\* and created a new one; an earlier order is committed and A's stored item
\* and its refund allocation are still there
C12_Witness ==
  /\ osPc = "thrown"
  /\ osTx # Null
  /\ osTx[1].step = "rolled back"
  /\ osTx[1].item > 0
  /\ OsStoredItem \notin osTx[1].tables.items
  /\ OsStoredItem \in dbOrderItems
  /\ OsStoredAllocation \in dbRefundAllocations
  /\ osCommitted # {}
  /\ CommittedRows.orders # {}

(***************************************************************************)
(* Finances sync: failures, order links and refund allocations.            *)
(***************************************************************************)
\* C13: when a write fails while the events of a sync are persisted, none
\* of the FinancialEvent and RefundAllocation writes of that sync shows in
\* the store.
C13_BatchAtomic ==
  (fsPc = "thrown" /\ fsBefore # Null) =>
    /\ dbFinancialEvents = fsBefore[1].events
    /\ dbRefundAllocations = fsBefore[1].allocations

\* C14: the order link of every FinancialEvent row is null or the id of a
\* stored Order; an event whose upstream order id is unknown locally is
\* stored with a null link.
C14_OrderLinkNullOrKnown ==
  /\ \A i \in 1..Len(dbFinancialEvents) :
       \/ dbFinancialEvents[i].amazonOrderId = Null
       \/ \E o \in dbOrders : o.amazonOrderId = dbFinancialEvents[i].amazonOrderId[1]
  /\ \A r \in WritingRuns : \A i \in 1..Len(fsRunLog[r].table) :
       \/ fsRunLog[r].table[i].amazonOrderId = Null
       \/ \E o \in dbOrders : o.amazonOrderId = fsRunLog[r].table[i].amazonOrderId[1]

\* a sync has stored a refund of the known order A with its link and a
\* refund of the unknown order Z with a null link
C14_Witness ==
  /\ fsPc = "idle"
  /\ WritingRuns # {}
  /\ \E i \in 1..Len(dbFinancialEvents) : dbFinancialEvents[i].amazonOrderId = Some("A")
  /\ \E i \in 1..Len(dbFinancialEvents), k \in 1..Len(fsEvents) :
       /\ fsEvents[k].amazonOrderId = Some("Z")
       /\ dbFinancialEvents[i].eventKey = fsEvents[k].eventKey
       /\ dbFinancialEvents[i].amazonOrderId = Null

\* the RefundAllocation rows of the event of a key, in the tables a sync left
AllocationsOfKey(run, key) ==
  { a \in run.allocations :
      \E i \in 1..Len(run.table) :
        run.table[i].eventKey = key /\ run.table[i].id = a.financialEventId }

\* C15: a refund event processed by several syncs over unchanged items has
\* the RefundAllocation rows one sync leaves: one row for an item at most,
\* never more rows than the order has items, the same items and amounts
\* after every sync.
C15_AllocationsReplaced ==
  /\ \A a, b \in dbRefundAllocations :
       (a.financialEventId = b.financialEventId /\ a.orderItemId = b.orderItemId) => a = b
  /\ \A i \in 1..Len(dbFinancialEvents) :
       dbFinancialEvents[i].amazonOrderId # Null =>
         Cardinality({ a \in dbRefundAllocations : a.financialEventId = i })
           <= Cardinality({ r \in dbOrderItems :
                              r.amazonOrderId = dbFinancialEvents[i].amazonOrderId[1] })
  /\ \A r1, r2 \in WritingRuns : \A key \in fsRunLog[r1].keys \cap fsRunLog[r2].keys :
       AllocationsOfKey(fsRunLog[r1], key) = AllocationsOfKey(fsRunLog[r2], key)

\* two writing syncs have processed the refund of order A, whose two items
\* hold one allocation each
C15_Witness ==
  /\ fsPc = "idle"
  /\ WritingRuns = {1, 2}
  /\ \E key \in fsRunLog[1].keys \cap fsRunLog[2].keys :
       Cardinality(AllocationsOfKey(fsRunLog[2], key)) = 2
  /\ Cardinality(dbOrderItems) = 2
  /\ \A r \in dbOrderItems : r.isRefunded

(***************************************************************************)
(* Full sync run and run ledger.                                           *)
(***************************************************************************)
\* the instant lies on a day the window covers
InWindow(instant, window) ==
  /\ window.startDate <= startOfUtcDay(instant)
  /\ startOfUtcDay(instant) < window.endExclusive

\* C16: when a full run that writes has succeeded, the purchase date of
\* every order it persisted and the posted date of every event it persisted
\* lie on a day inside the window its daily-summary step recomputed.
C16_PersistedDatesInSummaryWindow ==
  (runPc = "respond" /\ ~runOptions.dryRun) =>
    /\ \A i \in 1..Len(ocEntries) :
         InWindow(ocEntries[i].order.PurchaseDate, runLog[runId].summary)
    /\ \A i \in 1..Len(fsEvents) :
         InWindow(fsEvents[i].postedDate, runLog[runId].summary)

\* C17: a SyncRun row is created with status running, and its status
\* changes only from running to success or from running to failed; a row
\* that is success or failed keeps its status in every later step.
C17_LedgerStatusOnlyForward ==
  [][ /\ Len(dbSyncRuns') >= Len(dbSyncRuns)
      /\ \A i \in 1..Len(dbSyncRuns') :
           IF i > Len(dbSyncRuns)
             THEN dbSyncRuns'[i].status = "running"
             ELSE \/ dbSyncRuns'[i].status = dbSyncRuns[i].status
                  \/ /\ dbSyncRuns[i].status = "running"
                     /\ dbSyncRuns'[i].status \in {"success", "failed"}
    ]_vars

\* the first run ended a success and the run after it ended failed: the
\* response of the first and every step of the second came after the first
\* row was terminal
C17_Witness ==
  /\ runPc = "idle"
  /\ Len(dbSyncRuns) = 2
  /\ dbSyncRuns[1].status = "success"
  /\ dbSyncRuns[2].status = "failed"

C19_DryRunLeavesTables ==
  [][ (runPc \in {"orders", "finances", "summary", "rejected", "respond"}
       /\ runOptions.dryRun) =>
        UNCHANGED <<dbOrders, dbOrderItems, dbProducts, dbFinancialEvents,
                    dbRefundAllocations, dbDailySummary>>
    ]_vars

\* the counts of a run's results
RunCounts(run) ==
  [ordersUpserted |-> run.orders[1].ordersUpserted,
   orderItemsUpserted |-> run.orders[1].orderItemsUpserted,
   productsUpserted |-> run.orders[1].productsUpserted,
   eventsUpserted |-> run.finances[1].eventsUpserted,
   orderItemsMarkedRefunded |-> run.finances[1].orderItemsMarkedRefunded,
   refundAllocationsUpserted |-> run.finances[1].refundAllocationsUpserted,
   diagnostics |-> run.orders[1].diagnostics,
   eventsFetched |-> run.finances[1].eventsFetched]

\* the tables the orders and finances steps read and write
SyncedTables(store) ==
  [orders |-> store.orders, items |-> store.items, products |-> store.products,
   events |-> store.events, allocations |-> store.allocations]

\* C20: a dry run and a writing run of one payload that started from the
\* same tables and got the same answers from upstream return the same
\* counts and diagnostics.
C20_DryRunSameCounts ==
  \A i, j \in 1..Len(runLog) :
    (/\ runLog[i].finished /\ runLog[j].finished
     /\ runLog[i].options.dryRun /\ ~runLog[j].options.dryRun
     /\ runLog[i].options.days = runLog[j].options.days
     /\ SyncedTables(runLog[i].store) = SyncedTables(runLog[j].store)
     /\ runLog[i].entries = runLog[j].entries
     /\ runLog[i].orders[1].diagnostics = runLog[j].orders[1].diagnostics)
    => RunCounts(runLog[i]) = RunCounts(runLog[j])

(***************************************************************************)
(* Claims about the retry delay.                                           *)
(***************************************************************************)
\* ceil(1000 / hint) + 1500 clamped to [lo, hi], the hint in thousandths of
\* a request per second
HintDelay(milliHint, lo, hi) ==
  LET wait == ((1000 * 1000 - 1) \div milliHint) + 1 + 1500
  IN IF wait < lo THEN (IF lo < hi THEN lo ELSE hi)
     ELSE IF wait > hi THEN hi ELSE wait

\* min(base * 2^(a-1), hi)
BackoffDelay(a, base, hi) ==
  IF base * (2 ^ (a - 1)) < hi THEN base * (2 ^ (a - 1)) ELSE hi

\* C24: the delay slept after failed attempt a is, for a 429 with a positive
\* rate-limit hint, ceil(1000/hint) + 1500 ms clamped to [baseDelay,
\* maxDelay], and min(baseDelay * 2^(a-1), maxDelay) in every other retryable
\* case; no delay exceeds maxDelay and the exponential delays do not
\* decrease with a.
C24_RetryDelay ==
  LET base == rtOptions.baseDelayMs
      hi == rtOptions.maxDelayMs
      n == Len(rtSleeps)
  IN /\ \A a \in 1..n : rtSleeps[a] <= hi
     /\ \A a \in 1..n : rtCalls[a] # 429 => rtSleeps[a] = BackoffDelay(a, base, hi)
     /\ \A a, b \in 1..n :
          (a < b /\ rtCalls[a] # 429 /\ rtCalls[b] # 429) => rtSleeps[a] <= rtSleeps[b]
     /\ rtPc = "sleep" =>
          LET error == rtLastError[1]
              hinted == /\ rtCalls[n] = 429
                        /\ error.rateLimit # Null
                        /\ error.rateLimit[1] > 0
          IN rtSleeps[n] = IF hinted THEN HintDelay(error.rateLimit[1], base, hi)
                           ELSE BackoffDelay(n, base, hi)

\* two 503s slept 4000 and 8000 ms, then a 429 with a hint of 5 requests a
\* second, whose 1700 ms are raised to the base delay
C24_Witness ==
  /\ rtPc = "sleep"
  /\ rtOptions.baseDelayMs = 4000
  /\ rtCalls = <<503, 503, 429>>
  /\ rtLastError[1].rateLimit = Some(5000)
  /\ rtSleeps = <<4000, 8000, 4000>>

(***************************************************************************)
(* Claims about the shares of the refund allocator.                        *)
(***************************************************************************)
\* quantity * unitPrice + tax - |discount| when positive, else the quantity,
\* or 1 when the quantity is not positive
WeightOf(item) ==
  LET price == IF item.itemPrice = Null THEN 0 ELSE item.itemPrice[1]
      tax == IF item.itemTax = Null THEN 0 ELSE item.itemTax[1]
      discount == IF item.promotionDiscount = Null THEN 0
                  ELSE item.promotionDiscount[1]
      gross == item.quantityOrdered * price + tax
                 - (IF discount < 0 THEN 0 - discount ELSE discount)
  IN IF gross > 0 THEN gross
     ELSE IF item.quantityOrdered > 0 THEN item.quantityOrdered
     ELSE 1

\* num / den rounded to the nearest whole micro-unit
RoundedShare(num, den) ==
  LET floor == num \div den
  IN IF 2 * (num - floor * den) >= den THEN floor + 1 ELSE floor

RECURSIVE TotalWeight(_, _)
TotalWeight(items, n) ==
  IF n = 0 THEN 0 ELSE WeightOf(items[n]) + TotalWeight(items, n - 1)

\* the rows of a call: a row per item, every share but the last rounded
\* from the weights, and the spec's two examples
SharesAndRows ==
  LET n == Len(allocItems)
      total == TotalWeight(allocItems, n)
      weights == [i \in 1..n |-> WeightOf(allocItems[i])]
      amounts == [i \in 1..Len(allocResult) |-> allocResult[i].amount]
  IN /\ \A i \in 1..n : weights[i] > 0
     /\ Len(allocResult) = n
     /\ \A i \in 1..n : allocResult[i].orderItemId = allocItems[i].id
     /\ \A i \in 1..(n - 1) :
          allocResult[i].amount = RoundedShare(allocAmount * weights[i], total)
     /\ (allocAmount = 30 * Micro /\ weights = <<10, 20>>)
          => amounts = <<10 * Micro, 20 * Micro>>
     /\ (allocAmount = 30 * Micro /\ weights = <<10, 21>>)
          => amounts = <<9677419, 20322581>>

\* C25 as stated: every call of allocateRefundAmount gives every item of
\* the order a row, every item but the last round(amount * weight /
\* totalWeight, 6), with the weight quantity * unitPrice + tax - |discount|
\* or else the quantity or 1; 30.00 over weights 10 and 20 gives 10.00 and
\* 20.00, over 10 and 21 gives 9.677419 and 20.322581.
C25_SharesAndRows ==
  allocPc = "returned" => SharesAndRows

\* C25 amended: the same for every call with a positive amount; a call with
\* an amount of zero or less returns no row.
C25_SharesAndRowsOfPositiveAmount ==
  allocPc = "returned" =>
    IF allocAmount > 0 THEN SharesAndRows ELSE allocResult = <<>>

\* 30.00 over the weights 10 and 21
C25_Witness ==
  /\ allocPc = "returned"
  /\ allocAmount = 30 * Micro
  /\ Len(allocItems) = 2
  /\ WeightOf(allocItems[1]) = 10
  /\ WeightOf(allocItems[2]) = 21
  /\ allocResult[1].amount = 9677419
  /\ allocResult[2].amount = 20322581

(***************************************************************************)
(* Claims about the entries of the order collector.                        *)
(***************************************************************************)
\* the pages of the call that carried the order id
PagesWithOrder(id) ==
  { p \in 1..Len(ocPageLog) :
      \E k \in 1..Len(ocPageLog[p].orders) : ocPageLog[p].orders[k].AmazonOrderId = id }

\* the last copy of the order id on the last page that carried it
LastSeenCopy(id) ==
  LET pages == PagesWithOrder(id)
      p == CHOOSE q \in pages : \A r \in pages : r <= q
      copies == { k \in 1..Len(ocPageLog[p].orders) :
                    ocPageLog[p].orders[k].AmazonOrderId = id }
      k == CHOOSE c \in copies : \A d \in copies : d <= c
  IN ocPageLog[p].orders[k]

\* C26: the returned entries hold every fetched order id once and no other,
\* each with the copy of the last page that carried the id, in the order of
\* purchase date, most recent first.
C26_EntriesUniqueLastSeenSorted ==
  ocPc = "returned" =>
    /\ \A i, j \in 1..Len(ocEntries) :
         ocEntries[i].order.AmazonOrderId = ocEntries[j].order.AmazonOrderId => i = j
    /\ { ocEntries[i].order.AmazonOrderId : i \in 1..Len(ocEntries) }
         = { id \in OrderIds : PagesWithOrder(id) # {} }
    /\ \A i \in 1..Len(ocEntries) :
         ocEntries[i].order = LastSeenCopy(ocEntries[i].order.AmazonOrderId)
    /\ \A i, j \in 1..Len(ocEntries) :
         i < j => ocEntries[i].order.PurchaseDate >= ocEntries[j].order.PurchaseDate

\* order A came on both pages with different purchase dates: the entries
\* hold the second page's copy of A, behind the more recent order B
C26_Witness ==
  /\ ocPc = "returned"
  /\ Len(ocPageLog) = 2
  /\ ocPageLog[1].orders = << [AmazonOrderId |-> "A", PurchaseDate |-> 2] >>
  /\ ocPageLog[2].orders = << [AmazonOrderId |-> "A", PurchaseDate |-> 1],
                              [AmazonOrderId |-> "B", PurchaseDate |-> 2] >>
  /\ Len(ocEntries) = 2
  /\ ocEntries[1].order = [AmazonOrderId |-> "B", PurchaseDate |-> 2]
  /\ ocEntries[2].order = [AmazonOrderId |-> "A", PurchaseDate |-> 1]

\* C30: the number of entries fetchOrdersWithItems returns is at most
\* maxOrders, however many orders the page that reached the limit carried.
C30_EntriesWithinMaxOrders ==
  ocPc = "returned" => Len(ocEntries) <= ocLimits.maxOrders

(***************************************************************************)
(* Claims about stored line items and allocations across syncs.            *)
(***************************************************************************)
\* the current run got no items for the entry: the order lies beyond
\* maxOrdersWithItems or its item fetch failed
NoItemsObtained(index) ==
  \/ index > ocLimits.maxOrdersWithItems
  \/ ocEntries[index].order.AmazonOrderId \in ocItemFailures

\* C28: when the transaction of an order for which the run obtained no
\* items commits, the OrderItem rows stored for that order before are still
\* stored.
C28_StoredItemsKept ==
  [][ (osPc = "tx" /\ osPc' = "entry" /\ NoItemsObtained(osIndex + 1)) =>
        { r \in dbOrderItems :
            r.amazonOrderId = ocEntries[osIndex + 1].order.AmazonOrderId }
          \subseteq dbOrderItems'
    ]_vars

\* the sum of the amounts of the RefundAllocation rows of an event
AllocatedTo(allocations, eventId) ==
  SumAmounts(SeqOfSet({ a \in allocations : a.financialEventId = eventId }))

\* C27: when a full run that writes has completed, every refund event that
\* had RefundAllocation rows when the run began still has rows, summing to
\* its absolute amount, whether or not the finances step fetched it.
C27_AllocationsSurviveRun ==
  (runPc = "respond" /\ ~runOptions.dryRun) =>
    LET before == runLog[runId].store
    IN \A i \in 1..Len(before.events) :
         ( /\ isRefundEventType(before.events[i].eventType)
           /\ \E a \in before.allocations : a.financialEventId = before.events[i].id )
         => /\ \E a \in dbRefundAllocations : a.financialEventId = before.events[i].id
            /\ AllocatedTo(dbRefundAllocations, before.events[i].id)
                 = Abs(before.events[i].amount) * Micro

(***************************************************************************)
(* Claims about what a run reports of a truncated orders fetch.            *)
(***************************************************************************)

nextItemToken(token) == IF token = Some("token") THEN Some("token-2") ELSE Some("token")

\* a further pass of the loop of fetchOrderItemsForOrder: getOrderItems
\* resolves with no items and one more continuation token
OcFetchItemsPageAgain ==
  /\ ocPc = "items"
  /\ ocIndex < Len(ocSorted)
  /\ ~itemsLimitReached(ocIndex, ocLimits.maxOrdersWithItems)
  /\ ocItemToken # Null
  /\ ocItemPages + 1 >= MaxItemPages
  /\ ocItemToken' = nextItemToken(ocItemToken)
  /\ UNCHANGED <<ocLimits, ocUpstream, ocOrders, ocNextToken, ocPagesFetched, ocOrderLimitHit,
                 ocSorted, ocIndex, ocItems, ocItemPages, ocEntries, ocOrdersWithItemsFetched,
                 ocResult, ocPc, ocPageLog, ocItemRequests, ocItemFailures,
                 allocVars, retryVars, dbVars, fsVars, dsVars, osVars, runVars>>

RunLiveNext == RunNext \/ OcFetchItemsPageAgain

\* the run keeps taking steps: the process does not crash or hang
SpecRunLive == RunInit /\ [][RunLiveNext]_vars /\ WF_vars(RunLiveNext)

\* a row of the ledger is in status running
LedgerRunning == \E i \in 1..Len(dbSyncRuns) : dbSyncRuns[i].status = "running"

\* C23: every run that has started terminates: its ledger row eventually
\* leaves the status running, whatever upstream answers.
C23_RunTerminates == LedgerRunning ~> ~LedgerRunning

(***************************************************************************)
(* Claims about syncs that run at the same time.                           *)
(***************************************************************************)

\* the row of the date of row as recomputeDailySummary computes it from the
\* stored tables for a window of days days
RecomputedRow(row, days) ==
  LET window == windowOf(days, now)
      dateKey == toDateKey(row.date)
  IN summaryRow(dateKey, accumulate(dateKey, findOrders(window), findEvents(window), dbCogs))

\* C22: once two runs that recomputed the summaries while a finances sync
\* wrote have both finished (and no COGS entry was saved meanwhile), every
\* DailySummary row equals the aggregate of the orders, items and events
\* that are stored at the end for its date.
C22_SummariesMatchStore ==
  (/\ \A p \in Callers : rcPc[p] = "idle" /\ rcRuns[p] >= 1
   /\ dbCogs = {}) =>
    \A row \in dbDailySummary :
      \E days \in 1..MaxWindowDays : row = RecomputedRow(row, days)

(***************************************************************************)
(* A finances sync and an orders sync at the same time, on a store that    *)
(* may hold order A with an item: POST /api/sync/finances and              *)
(* POST /api/sync/orders, each called once.  The statements of the         *)
(* finances sync run one by one, with no transaction; a transaction of     *)
(* the orders sync holds the database from its first statement to its      *)
(* commit, so no statement of the finances sync falls inside it.  No call  *)
(* to upstream and no write fails on its own.                              *)
(***************************************************************************)

\* POST /api/sync/finances: syncFinancesFromSpApi is called
CcFinancesCall ==
  /\ fsPc = "idle"
  /\ fsRunLog = <<>>
  /\ FsBegin([maxEventsPages |-> DefaultEventPages, dryRun |-> FALSE])
  /\ UNCHANGED <<finUpstream, dbVars, allocVars, retryVars, ocVars, dsVars, osVars, runVars>>

\* POST /api/sync/orders: syncOrdersFromSpApi is called
CcOrdersCall ==
  /\ osPc = "idle"
  /\ \E feed \in RunFeeds : OsBegin(FALSE, RunOrderLimits, {feed.orders})
  /\ UNCHANGED <<dbVars, dbProducts, allocVars, retryVars, fsVars, dsVars, runVars>>

\* prisma.refundAllocation.createMany is rejected: a row names an OrderItem
\* that is no longer stored, and the sync throws
FsCreateAllocationsRejected ==
  /\ fsPc = "create"
  /\ ~allocationItemsStored
  /\ fsPc' = "thrown"
  /\ UNCHANGED <<finUpstream, fsBefore, fsOptions, fsRaw, fsPagesFetched, fsEvents, fsKnown,
                 fsItemsByOrder, fsIndex, fsEventId, fsAllocations, fsCounts, fsRunLog,
                 dbVars, allocVars, retryVars, ocVars, dsVars, osVars, runVars>>

\* a statement of the finances sync, outside the transactions of the orders sync
CcFinancesStep ==
  /\ osPc # "tx"
  /\ \/ FsFetchPage \/ FsFindKnownOrders \/ FsFindOrderItems \/ FsUpsertEvent
     \/ FsDeleteAllocations \/ FsCreateAllocations \/ FsCreateAllocationsRejected
     \/ FsMarkRefunded \/ FsReturn

CcNext ==
  \/ CcFinancesCall \/ CcOrdersCall \/ CcFinancesStep
  \/ OcFetchPage \/ OcSort \/ OcSkipItems \/ OcFetchItemsPage \/ OcReturn
  \/ OsFetched \/ OsBeginTx \/ OsUpsertOrder \/ OsDeleteItems \/ OsCreateItem
  \/ OsCommit \/ OsReturn

CcStartState ==
  /\ now = DayTicks + 1
  /\ \/ /\ dbOrders = {}
        /\ dbOrderItems = {}
        /\ dbFinancialEvents = <<>>
        /\ dbRefundAllocations = {}
     \/ /\ dbOrders = {OsStoredOrder}
        /\ dbOrderItems = {OsStoredItem}
        /\ dbFinancialEvents = <<OsStoredEvent>>
        /\ dbRefundAllocations = {OsStoredAllocation}
  /\ dbProducts = {}
  /\ osDryRun = FALSE
  /\ osPc = "idle"
  /\ osIndex = 0
  /\ osTx = Null
  /\ osCounts = NoOrderCounts
  /\ osResult = Null
  /\ osCommitted = {}
  /\ finUpstream \in { feed.events : feed \in RunFeeds }
  /\ fsOptions = [maxEventsPages |-> 1, dryRun |-> FALSE]
  /\ fsRaw = <<>>
  /\ fsPagesFetched = 0
  /\ fsEvents = <<>>
  /\ fsKnown = {}
  /\ fsItemsByOrder = <<>>
  /\ fsIndex = 0
  /\ fsEventId = 0
  /\ fsAllocations = <<>>
  /\ fsCounts = NoCounts
  /\ fsPc = "idle"
  /\ fsRunLog = <<>>
  /\ fsBefore = Null

CcInit == AllocIdle /\ RetryIdle /\ OcIdle /\ DsIdle /\ RunIdle /\ CcStartState

SpecConcurrent == CcInit /\ [][CcNext]_vars

\* both syncs have finished, by returning or by throwing
BothFinished ==
  /\ osPc \in {"returned", "thrown"}
  /\ fsPc = "thrown" \/ (fsPc = "idle" /\ fsRunLog # <<>>)

\* C21: when a finances sync and an orders sync of the same order have run
\* at the same time and both have finished, neither has thrown, and every
\* refund event has at most one RefundAllocation row per order item, each
\* of an OrderItem that is stored.
C21_ConcurrentSyncsSucceed ==
  BothFinished =>
    /\ osPc = "returned"
    /\ fsPc = "idle"
    /\ \A a \in dbRefundAllocations :
         /\ \E r \in dbOrderItems : r.id = a.orderItemId
         /\ \A b \in dbRefundAllocations :
              (b.financialEventId = a.financialEventId /\ b.orderItemId = a.orderItemId)
                => b = a

====
